---- MODULE Spec2Model ----
(***************************************************************************)
(* Model of the OpenAI streaming decoder of golem-llm                      *)
(* (llm/openai/src/lib.rs, client.rs, conversions.rs).                     *)
(*                                                                         *)
(* Conventions.  A Rust Option<T> is a sequence of length at most one:     *)
(* None is <<>> and Some(x) is <<x>>.  A Rust String that the decoder     *)
(* concatenates or emits as text (content, tool-call arguments) is a       *)
(* sequence of characters; identifiers (ids, names, enum tags) are TLA+    *)
(* strings and "" is the empty String.  A HashMap is a function whose      *)
(* DOMAIN is its key set.                                                  *)
(***************************************************************************)
EXTENDS Integers, Sequences, FiniteSets, TLC

None == <<>>
Some(x) == <<x>>

(***************************************************************************)
(* A raw frame handed to decode_message.  head is the first six bytes of   *)
(* the frame, text is the rest of the frame when that rest is not a JSON   *)
(* document (a sequence of literal tokens), and json is the JSON document  *)
(* the rest denotes (None when it is not JSON).                            *)
(***************************************************************************)
DataPrefix == "data: "
DoneMarker == "[DONE]"

Raw(head, text, json) == [head |-> head, text |-> text, json |-> json]

\* The records that make up the input data (frames, replies, messages,
\* configurations) are written with their fields in the order in which TLC
\* keeps the fields of a record, so that a value shared by the workers is
\* never reordered in place while another worker reads it.


\* JSON shape of a tool-call fragment; an absent (or null) key is None.  The
\* fragment is written with "type": "function"; a fragment without that key,
\* or with another value, is this record with its type changed.
JsonToolCall(id, name, arguments, index) ==
    [id |-> id, index |-> index, type |-> Some("function"),
     function |-> [name |-> name, arguments |-> arguments]]

\* JSON shape of one element of "choices", written with "index": 0.
JsonChoice(finish_reason, content, tool_calls) ==
    [index |-> Some(0), finish_reason |-> finish_reason,
     delta |-> [content |-> content, tool_calls |-> tool_calls]]

\* JSON shape of a chat.completion.chunk object, written with
\* "model": "gpt-4o".
JsonChunk(id, created, choices, usage) ==
    [id |-> id, created |-> created, choices |-> choices, usage |-> usage,
     model |-> Some("gpt-4o")]

JsonUsage(prompt, completion, total) ==
    [prompt_tokens |-> prompt, completion_tokens |-> completion, total_tokens |-> total]

\* The variants of client::FinishReason, by their serde names.
FinishReasonNames == {"stop", "length", "tool_calls", "content_filter"}

\* conversions::convert_finish_reason
convert_finish_reason(value) ==
    CASE value = "stop" -> "Stop"
      [] value = "length" -> "Length"
      [] value = "tool_calls" -> "ToolCalls"
      [] value = "content_filter" -> "ContentFilter"

\* Variant: the prompt and completion counts change places.
convert_usage_Swapped(value) ==
    [input_tokens |-> Some(value.completion_tokens),
     output_tokens |-> Some(value.prompt_tokens),
     total_tokens |-> Some(value.total_tokens)]

\* conversions::convert_usage
convert_usage(value) ==
    [input_tokens |-> Some(value.prompt_tokens),
     output_tokens |-> Some(value.completion_tokens),
     total_tokens |-> Some(value.total_tokens)]

\* u64::to_string: the decimal digits of n, most significant first.
Digit(d) == CASE d = 0 -> "0" [] d = 1 -> "1" [] d = 2 -> "2" [] d = 3 -> "3"
              [] d = 4 -> "4" [] d = 5 -> "5" [] d = 6 -> "6" [] d = 7 -> "7"
              [] d = 8 -> "8" [] d = 9 -> "9"

RECURSIVE to_string(_)
to_string(n) == IF n < 10 THEN <<Digit(n)>> ELSE to_string(n \div 10) \o <<Digit(n % 10)>>

(***************************************************************************)
(* Result<Option<StreamEvent>, String>                                     *)
(***************************************************************************)
Ok(event) == [ok |-> TRUE, event |-> event, err |-> ""]
Err(msg) == [ok |-> FALSE, event |-> None, err |-> msg]

\* StreamEvent::Delta(StreamDelta { content, tool_calls })
Delta(content, tool_calls) ==
    [type |-> "Delta", content |-> content, tool_calls |-> tool_calls]

\* ContentPart::Text
Text(t) == [text |-> t]

\* StreamEvent::Finish(ResponseMetadata { .. })
Finish(finish_reason, usage, provider_id, timestamp) ==
    [type |-> "Finish", finish_reason |-> finish_reason, usage |-> usage,
     provider_id |-> provider_id, timestamp |-> timestamp,
     provider_metadata_json |-> None]

\* golem_llm ToolCall { id, name, arguments_json }
ToolCall(id, name, arguments_json) ==
    [id |-> id, name |-> name, arguments_json |-> arguments_json]

\* JsonFragment { id, name, json }
JsonFragment(id, name, json) == [id |-> id, name |-> name, json |-> json]

(***************************************************************************)
(* decode_message, step by step.                                           *)
(***************************************************************************)

\* Variant: the sentinel is compared with its line terminator included.
StartsWithDone_Newline(raw) ==
    raw.head = DataPrefix /\ Len(raw.text) >= 2 /\ raw.text[1] = DoneMarker /\ raw.text[2] = "\n"

\* raw.starts_with("data: [DONE]")
StartsWithDone(raw) ==
    raw.head = DataPrefix /\ Len(raw.text) >= 1 /\ raw.text[1] = DoneMarker

\* Variant: the data-prefix check is missing.
StartsWithData_NoCheck(raw) == TRUE

\* Variant: "event:" lines are taken for data lines too.
StartsWithData_EventLines(raw) == raw.head \in {DataPrefix, "event:"}

\* raw.starts_with("data: ")
StartsWithData(raw) == raw.head = DataPrefix

\* serde_json::from_str(&raw[6..]): the rest of the frame after six bytes.
ParseJson(raw) == raw.json

\* Deserialize for client::ToolCall: the tag "type" must be "function", and
\* id, function.name and function.arguments are required Strings.
ToolCallDeserializes(tc) ==
    /\ tc.type = Some("function")
    /\ tc.id # None
    /\ tc.function.name # None
    /\ tc.function.arguments # None

\* Deserialize for client::ChoiceChunk: index is a required u32.
ChoiceDeserializes(c) ==
    /\ c.index # None
    /\ c.finish_reason # None => c.finish_reason[1] \in FinishReasonNames
    /\ c.delta.tool_calls # None =>
          \A i \in 1..Len(c.delta.tool_calls[1]) : ToolCallDeserializes(c.delta.tool_calls[1][i])

\* serde_json::from_value::<ChatCompletionChunk>(json) succeeds
ChunkDeserializes(json) ==
    /\ json.model # None
    /\ \A i \in 1..Len(json.choices) : ChoiceDeserializes(json.choices[i])

\* client::ToolCall::Function { function, id, index } as deserialized
TypedToolCall(tc) ==
    [id |-> tc.id[1], index |-> tc.index,
     function |-> [name |-> tc.function.name[1], arguments |-> tc.function.arguments[1]]]

TypedChoice(c) ==
    [finish_reason |-> c.finish_reason,
     delta |-> [content |-> c.delta.content,
                tool_calls |-> IF c.delta.tool_calls = None THEN None
                               ELSE Some([i \in 1..Len(c.delta.tool_calls[1]) |->
                                             TypedToolCall(c.delta.tool_calls[1][i])])]]

\* The ChatCompletionChunk value produced by a successful deserialization.
TypedChunk(json) ==
    [id |-> json.id, created |-> json.created,
     choices |-> [i \in 1..Len(json.choices) |-> TypedChoice(json.choices[i])],
     usage |-> json.usage]

\* Variant: the last choice of the chunk is taken.
FirstChoice_Last(chunk) ==
    IF Len(chunk.choices) = 0 THEN None ELSE Some(chunk.choices[Len(chunk.choices)])

\* chunk.choices.into_iter().next()
FirstChoice(chunk) == IF Len(chunk.choices) = 0 THEN None ELSE Some(chunk.choices[1])

\* Variant: the first recorded finish reason is kept.
RecordFinishReason_FirstWins(current, choice) ==
    IF choice.finish_reason # None /\ current = None
    THEN Some(convert_finish_reason(choice.finish_reason[1]))
    ELSE current

\* if let Some(finish_reason) = choice.finish_reason { self.set_finish_reason(..) }
RecordFinishReason(current, choice) ==
    IF choice.finish_reason # None
    THEN Some(convert_finish_reason(choice.finish_reason[1]))
    ELSE current

\* index.unwrap_or(0)
FragmentIndex(tool_call) == IF tool_call.index = None THEN 0 ELSE tool_call.index[1]

\* Variant: the entry's id and name are overwritten by every fragment.
EntryOrInsert_Overwrite(fragments, idx, tool_call) ==
    [k \in DOMAIN fragments \cup {idx} |->
        IF k = idx
        THEN JsonFragment(tool_call.id, tool_call.function.name,
                          IF idx \in DOMAIN fragments THEN fragments[idx].json ELSE <<>>)
        ELSE fragments[k]]

\* fragments.entry(idx).or_insert_with(|| JsonFragment { id, name, json: "" })
EntryOrInsert(fragments, idx, tool_call) ==
    IF idx \in DOMAIN fragments THEN fragments
    ELSE [k \in DOMAIN fragments \cup {idx} |->
             IF k = idx THEN JsonFragment(tool_call.id, tool_call.function.name, <<>>)
             ELSE fragments[k]]

\* Variant: the buffer is assigned instead of appended to.
PushArguments_Replace(json, arguments) ==
    IF arguments # <<>> THEN arguments ELSE json

\* if !function.arguments.is_empty() { fragment.json.push_str(&function.arguments) }
PushArguments(json, arguments) ==
    IF arguments # <<>> THEN json \o arguments ELSE json

\* Variant: the arguments of a fragment whose id or name differs from the
\* accumulator's are dropped.
MergeFragment_DropRenamed(fragments, tool_call) ==
    LET idx == FragmentIndex(tool_call)
        entered == EntryOrInsert(fragments, idx, tool_call)
    IN [entered EXCEPT ![idx].json =
           IF tool_call.id = entered[idx].id /\ tool_call.function.name = entered[idx].name
           THEN PushArguments(@, tool_call.function.arguments)
           ELSE @]

\* Variant: a fragment that carries an id starts its accumulator afresh.
MergeFragment_RestartOnId(fragments, tool_call) ==
    LET idx == FragmentIndex(tool_call)
        entered == EntryOrInsert(fragments, idx, tool_call)
    IN [entered EXCEPT ![idx].json =
           IF tool_call.id # "" THEN tool_call.function.arguments
           ELSE PushArguments(@, tool_call.function.arguments)]

\* One iteration of `for tool_call in tool_calls`: the fragment table after it.
MergeFragment(fragments, tool_call) ==
    LET idx == FragmentIndex(tool_call)
        entered == EntryOrInsert(fragments, idx, tool_call)
    IN [entered EXCEPT ![idx].json = PushArguments(@, tool_call.function.arguments)]

\* if !fragment.id.is_empty() && !fragment.name.is_empty()
Identified(fragment) == fragment.id # "" /\ fragment.name # ""

\* The whole `for tool_call in tool_calls` loop from position i on: the final
\* fragment table, result_tool_calls, and (bookkeeping only) the position in
\* tool_calls of the fragment each pushed tool call was built from.
RECURSIVE MergeToolCalls(_, _, _, _, _)
MergeToolCalls(tool_calls, i, fragments, result_tool_calls, result_positions) ==
    IF i > Len(tool_calls)
    THEN [fragments |-> fragments, result_tool_calls |-> result_tool_calls,
          result_positions |-> result_positions]
    ELSE LET idx == FragmentIndex(tool_calls[i])
             merged == MergeFragment(fragments, tool_calls[i])
             fragment == merged[idx]
         IN IF Identified(fragment)
            THEN MergeToolCalls(tool_calls, i + 1, merged,
                     Append(result_tool_calls,
                            ToolCall(fragment.id, fragment.name, fragment.json)),
                     Append(result_positions, i))
            ELSE MergeToolCalls(tool_calls, i + 1, merged, result_tool_calls, result_positions)

\* Variant: tool-call fragments take precedence over text.
DeltaContent_ToolsFirst(delta) == IF delta.tool_calls # None THEN None ELSE delta.content

\* The content the decoder looks at first: delta.content
DeltaContent(delta) == delta.content

\* Variant: a recorded finish reason alone is enough to emit Finish.
UsageTrailer_OnReason(chunk, finish_reason) ==
    IF chunk.usage # None \/ finish_reason # None
    THEN Ok(Some(Finish(finish_reason,
                        IF chunk.usage # None THEN Some(convert_usage(chunk.usage[1])) ELSE None,
                        Some(chunk.id), Some(to_string(chunk.created)))))
    ELSE Ok(None)

\* The trailer: if let Some(usage) = chunk.usage { Finish } else { Ok(None) }
UsageTrailer(chunk, finish_reason) ==
    IF chunk.usage # None
    THEN Ok(Some(Finish(finish_reason, Some(convert_usage(chunk.usage[1])),
                        Some(chunk.id), Some(to_string(chunk.created)))))
    ELSE Ok(None)

\* Variant: the flag is left as it is.
set_finished_Noop(st) == st

\* Variant: the flag is flipped.
set_finished_Toggle(st) == [st EXCEPT !.finished = ~@]

\* OpenAIChatStream::set_finished: *self.finished.borrow_mut() = true
set_finished(st) == [st EXCEPT !.finished = TRUE]

\* The body of decode_message after the chunk was deserialized.
DecodeChunk(chunk, st) ==
    LET first == FirstChoice(chunk) IN
    IF first = None
    THEN [st |-> st, result |-> UsageTrailer(chunk, st.finish_reason), positions |-> <<>>]
    ELSE
      LET choice == first[1]
          reason == RecordFinishReason(st.finish_reason, choice)
          st1 == [st EXCEPT !.finish_reason = reason]
          content == DeltaContent(choice.delta)
      IN IF content # None
         THEN [st |-> st1,
               result |-> Ok(Some(Delta(Some(<<Text(content[1])>>), None))),
               positions |-> <<>>]
         ELSE IF choice.delta.tool_calls # None
         THEN LET m == MergeToolCalls(choice.delta.tool_calls[1], 1, st1.json_fragments,
                                      <<>>, <<>>)
                  st2 == [st1 EXCEPT !.json_fragments = m.fragments]
              IN IF m.result_tool_calls # <<>>
                 THEN [st |-> st2,
                       result |-> Ok(Some(Delta(None, Some(m.result_tool_calls)))),
                       positions |-> m.result_positions]
                 ELSE [st |-> st2, result |-> UsageTrailer(chunk, reason), positions |-> <<>>]
         ELSE [st |-> st1, result |-> UsageTrailer(chunk, reason), positions |-> <<>>]

\* Variant: the finish reason of the frame is recorded before the rest of the
\* chunk is validated.
DecodeFailure_PartialApply(raw, st, msg) ==
    [st |-> IF raw.json # None /\ Len(raw.json[1].choices) >= 1
                  /\ raw.json[1].choices[1].finish_reason # None
                  /\ raw.json[1].choices[1].finish_reason[1] \in FinishReasonNames
            THEN [st EXCEPT !.finish_reason =
                     Some(convert_finish_reason(raw.json[1].choices[1].finish_reason[1]))]
            ELSE st,
     result |-> Err(msg), positions |-> <<>>]

\* Variant: a payload that cannot be decoded is skipped.
DecodeFailure_Skipped(raw, st, msg) ==
    [st |-> st, result |-> Ok(None), positions |-> <<>>]

\* .map_err(|err| format!(..))?: the call returns Err and nothing was applied.
DecodeFailure(raw, st, msg) ==
    [st |-> st, result |-> Err(msg), positions |-> <<>>]

\* Variant: a finished decoder ignores every frame.
decode_message_Frozen(raw, st) ==
    IF st.finished
    THEN [st |-> st, result |-> Ok(None), positions |-> <<>>]
    ELSE IF StartsWithDone(raw)
    THEN [st |-> set_finished(st), result |-> Ok(None), positions |-> <<>>]
    ELSE IF ~StartsWithData(raw)
    THEN [st |-> st, result |-> Ok(None), positions |-> <<>>]
    ELSE LET json == ParseJson(raw) IN
         IF json = None
         THEN DecodeFailure(raw, st, "Failed to parse stream event JSON")
         ELSE IF ~ChunkDeserializes(json[1])
         THEN DecodeFailure(raw, st, "Failed to deserialize stream event")
         ELSE DecodeChunk(TypedChunk(json[1]), st)

\* OpenAIChatStream::decode_message(&self, raw): the decoder state after the
\* call, the returned Result, and the fragment positions of the emitted tool
\* calls (bookkeeping).
decode_message(raw, st) ==
    IF StartsWithDone(raw)
    THEN [st |-> set_finished(st), result |-> Ok(None), positions |-> <<>>]
    ELSE IF ~StartsWithData(raw)
    THEN [st |-> st, result |-> Ok(None), positions |-> <<>>]
    ELSE LET json == ParseJson(raw) IN
         IF json = None
         THEN DecodeFailure(raw, st, "Failed to parse stream event JSON")
         ELSE IF ~ChunkDeserializes(json[1])
         THEN DecodeFailure(raw, st, "Failed to deserialize stream event")
         ELSE DecodeChunk(TypedChunk(json[1]), st)

(***************************************************************************)
(* The frames fed to the decoder.                                          *)
(***************************************************************************)
MaxFrames == 3

ChunkId == "chatcmpl-1"
TextA == <<"a">>
TextB == <<"b">>
ArgsP == <<"p">>
ArgsQ == <<"q">>
UsageStats == JsonUsage(3, 5, 8)

\* A data frame carrying a chunk.
DataFrame(choices, usage) ==
    Raw(DataPrefix, <<>>, Some(JsonChunk(ChunkId, 17, choices, usage)))

OneToolCall(id, name, arguments, index) ==
    <<JsonChoice(None, None, Some(<<JsonToolCall(Some(id), Some(name), Some(arguments), index)>>))>>

FrameKeepAlive == Raw(": ping", <<>>, None)
FrameEvent == Raw("event:", <<>>,
                  Some(JsonChunk(ChunkId, 17, <<JsonChoice(None, Some(TextA), None)>>, None)))
FrameDone == Raw(DataPrefix, <<DoneMarker>>, None)
FrameDoneTrailing == Raw(DataPrefix, <<DoneMarker, "x">>, None)
FrameBadJson == Raw(DataPrefix, <<"{oops">>, None)
FrameBadSchema ==
    DataFrame(<<JsonChoice(Some("stop"), None, Some(<<JsonToolCall(None, None, Some(ArgsQ), Some(0))>>))>>,
              None)
\* Chunks that lack a key the deserializer requires.
FrameNoModel ==
    Raw(DataPrefix, <<>>,
        Some([JsonChunk(ChunkId, 17, <<JsonChoice(Some("length"), Some(TextA), None)>>,
                        Some(UsageStats)) EXCEPT !.model = None]))
FrameChoiceNoIndex ==
    DataFrame(<<[JsonChoice(Some("stop"), Some(TextA), None) EXCEPT !.index = None]>>, None)
FrameToolNoType ==
    DataFrame(<<JsonChoice(Some("tool_calls"), None,
                  Some(<<[JsonToolCall(Some("c1"), Some("f"), Some(ArgsP), Some(0))
                             EXCEPT !.type = None]>>))>>, None)
FrameToolCustomType ==
    DataFrame(<<JsonChoice(None, None,
                  Some(<<[JsonToolCall(Some("c2"), Some("g"), Some(ArgsQ), Some(1))
                             EXCEPT !.type = Some("custom")]>>))>>, Some(UsageStats))
FrameContentA == DataFrame(<<JsonChoice(None, Some(TextA), None)>>, None)
FrameContentB == DataFrame(<<JsonChoice(Some("length"), Some(TextB), None)>>, None)
FrameStop == DataFrame(<<JsonChoice(Some("stop"), None, None)>>, None)
FrameUsage == DataFrame(<<>>, Some(UsageStats))
FrameUsageReason == DataFrame(<<JsonChoice(Some("tool_calls"), None, None)>>, Some(UsageStats))
FrameUsageContent == DataFrame(<<JsonChoice(None, Some(TextB), None)>>, Some(UsageStats))
FrameToolFirst == DataFrame(OneToolCall("c1", "f", ArgsP, Some(0)), None)
FrameToolCont == DataFrame(OneToolCall("", "", ArgsQ, Some(0)), None)
FrameToolNoIndex == DataFrame(OneToolCall("c2", "g", ArgsQ, None), None)
FrameToolUnidentified == DataFrame(OneToolCall("", "", ArgsP, Some(1)), None)
FrameToolIdentify == DataFrame(OneToolCall("c2", "g", ArgsQ, Some(1)), None)
FrameToolTwo ==
    DataFrame(<<JsonChoice(None, None,
                  Some(<<JsonToolCall(Some("c1"), Some("f"), Some(ArgsP), Some(0)),
                         JsonToolCall(Some(""), Some(""), Some(ArgsQ), Some(0))>>))>>, None)
FrameMixed ==
    DataFrame(<<JsonChoice(None, Some(TextA),
                  Some(<<JsonToolCall(Some("c1"), Some("f"), Some(ArgsP), Some(0))>>))>>, None)
FrameTwoChoices ==
    DataFrame(<<JsonChoice(None, None, None),
                JsonChoice(Some("stop"), Some(TextB),
                  Some(<<JsonToolCall(Some("c1"), Some("f"), Some(ArgsP), Some(0))>>))>>, None)

Frames ==
    {FrameKeepAlive, FrameEvent, FrameDone, FrameDoneTrailing, FrameBadJson, FrameBadSchema,
     FrameContentA, FrameContentB, FrameStop, FrameUsage, FrameUsageReason, FrameUsageContent,
     FrameToolFirst, FrameToolCont, FrameToolNoIndex, FrameToolUnidentified, FrameToolIdentify,
     FrameToolTwo, FrameMixed, FrameTwoChoices, FrameNoModel, FrameToolNoType}

(***************************************************************************)
(* Entry points: building the request, the HTTP exchange, the reply.       *)
(***************************************************************************)
MaxTools == 2

\* golem_llm Error { code, message, provider_error_json }
Error(code, message, provider_error_json) ==
    [code |-> code, message |-> message, provider_error_json |-> provider_error_json]

\* Result<T, Error>
OkValue(value) == [ok |-> TRUE, value |-> Some(value), error |-> None]
ErrValue(error) == [ok |-> FALSE, value |-> None, error |-> Some(error)]

\* ChatEvent
ChatMessage(response) == [type |-> "Message", response |-> response]
ChatToolRequest(tool_calls) == [type |-> "ToolRequest", tool_calls |-> tool_calls]
ChatError(error) == [type |-> "Error", error |-> error]

\* The text of a serde_json::Error.
JsonError == "serde_json::Error"

\* The alphabet of base64::engine::general_purpose::STANDARD.
Base64Alphabet ==
    <<"A", "B", "C", "D", "E", "F", "G", "H", "I", "J", "K", "L", "M",
      "N", "O", "P", "Q", "R", "S", "T", "U", "V", "W", "X", "Y", "Z",
      "a", "b", "c", "d", "e", "f", "g", "h", "i", "j", "k", "l", "m",
      "n", "o", "p", "q", "r", "s", "t", "u", "v", "w", "x", "y", "z",
      "0", "1", "2", "3", "4", "5", "6", "7", "8", "9", "+", "/">>

Sextet(n) == Base64Alphabet[n + 1]

\* general_purpose::STANDARD.encode: three bytes become four characters, and
\* a last group of one or two bytes is padded with "=".
RECURSIVE Base64Encode(_)
Base64Encode(data) ==
    CASE Len(data) = 0 -> ""
      [] Len(data) = 1 ->
           Sextet(data[1] \div 4) \o Sextet((data[1] % 4) * 16) \o "=="
      [] Len(data) = 2 ->
           Sextet(data[1] \div 4) \o Sextet((data[1] % 4) * 16 + data[2] \div 16)
             \o Sextet((data[2] % 16) * 4) \o "="
      [] OTHER ->
           Sextet(data[1] \div 4) \o Sextet((data[1] % 4) * 16 + data[2] \div 16)
             \o Sextet((data[2] % 16) * 4 + data[3] \div 64) \o Sextet(data[3] % 64)
             \o Base64Encode(SubSeq(data, 4, Len(data)))

\* conversions::convert_content_parts: a text part, an image given by its
\* URL, or an image given inline, which is sent as a base64 data URL.
convert_content_parts(contents) ==
    [i \in 1..Len(contents) |->
        CASE "text" \in DOMAIN contents[i] ->
               [type |-> "text", text |-> contents[i].text]
          [] "image_url" \in DOMAIN contents[i] ->
               [type |-> "image_url",
                image_url |-> [url |-> contents[i].image_url.url,
                               detail |-> contents[i].image_url.detail]]
          [] "inline" \in DOMAIN contents[i] ->
               [type |-> "image_url",
                image_url |-> [url |-> "data:" \o contents[i].inline.mime_type \o ";base64,"
                                          \o Base64Encode(contents[i].inline.data),
                               detail |-> contents[i].inline.detail]]]

\* Variant: a Tool message is sent as a user message.
ConvertMessage_ToolAsUser(message) ==
    CASE message.role \in {"User", "Tool"} ->
           [role |-> "user", name |-> message.name,
            content |-> convert_content_parts(message.content)]
      [] message.role = "Assistant" ->
           [role |-> "assistant", name |-> message.name,
            content |-> Some(convert_content_parts(message.content)), tool_calls |-> None]
      [] message.role = "System" ->
           [role |-> "system", name |-> message.name,
            content |-> convert_content_parts(message.content)]

\* The match on message.role in create_request.
ConvertMessage(message) ==
    CASE message.role = "User" ->
           [role |-> "user", name |-> message.name,
            content |-> convert_content_parts(message.content)]
      [] message.role = "Assistant" ->
           [role |-> "assistant", name |-> message.name,
            content |-> Some(convert_content_parts(message.content)), tool_calls |-> None]
      [] message.role = "System" ->
           [role |-> "system", name |-> message.name,
            content |-> convert_content_parts(message.content)]
      [] message.role = "Tool" ->
           [role |-> "tool", name |-> message.name,
            content |-> convert_content_parts(message.content), tool_call_id |-> "unknown"]

\* Variant: the error does not say which tool was rejected.
tool_definition_to_tool_Anonymous(tool) ==
    IF tool.parameters_schema.json # None
    THEN OkValue([type |-> "function",
                  function |-> [name |-> tool.name, description |-> tool.description,
                                parameters |-> Some(tool.parameters_schema.json[1])]])
    ELSE ErrValue(Error("InternalError",
                        <<"Failed to parse tool parameters", ": ", JsonError>>,
                        None))

\* conversions::tool_definition_to_tool
tool_definition_to_tool(tool) ==
    IF tool.parameters_schema.json # None
    THEN OkValue([type |-> "function",
                  function |-> [name |-> tool.name, description |-> tool.description,
                                parameters |-> Some(tool.parameters_schema.json[1])]])
    ELSE ErrValue(Error("InternalError",
                        <<"Failed to parse tool parameters for ", tool.name, ": ", JsonError>>,
                        None))

\* Variant: a tool whose schema does not parse is left out of the request.
RECURSIVE ConvertTools_SkipInvalid(_, _, _)
ConvertTools_SkipInvalid(tools, i, acc) ==
    IF i > Len(tools) THEN OkValue(acc)
    ELSE LET t == tool_definition_to_tool(tools[i])
         IN ConvertTools_SkipInvalid(tools, i + 1, IF t.ok THEN Append(acc, t.value[1]) ELSE acc)

\* for tool in config.tools { tools.push(tool_definition_to_tool(tool)?) }
RECURSIVE ConvertTools(_, _, _)
ConvertTools(tools, i, acc) ==
    IF i > Len(tools) THEN OkValue(acc)
    ELSE LET t == tool_definition_to_tool(tools[i])
         IN IF t.ok THEN ConvertTools(tools, i + 1, Append(acc, t.value[1])) ELSE t

\* provider_options collected into a HashMap: the last value of a key wins.
OptionsMap(provider_options) ==
    [k \in {provider_options[i].key : i \in 1..Len(provider_options)} |->
        provider_options[CHOOSE i \in 1..Len(provider_options) :
                            /\ provider_options[i].key = k
                            /\ \A j \in (i + 1)..Len(provider_options) :
                                  provider_options[j].key # k].value]

Digits == {"0", "1", "2", "3", "4", "5", "6", "7", "8", "9"}

DigitValue(c) == CHOOSE d \in 0..9 : Digit(d) = c

RECURSIVE DecimalValue(_)
DecimalValue(ds) ==
    IF ds = <<>> THEN 0
    ELSE DecimalValue(SubSeq(ds, 1, Len(ds) - 1)) * 10 + DigitValue(ds[Len(ds)])

\* The digits of u32::MAX and of u8::MAX.
U32Max == <<"4", "2", "9", "4", "9", "6", "7", "2", "9", "5">>
U8Max == <<"2", "5", "5">>

RECURSIVE StripZeros(_)
StripZeros(ds) == IF Len(ds) > 1 /\ ds[1] = "0" THEN StripZeros(Tail(ds)) ELSE ds

\* a <= b for two decimal numerals without leading zeros.
LeqDigits(a, b) ==
    \/ Len(a) < Len(b)
    \/ /\ Len(a) = Len(b)
       /\ \/ a = b
          \/ \E i \in 1..Len(a) :
                /\ DigitValue(a[i]) < DigitValue(b[i])
                /\ \A j \in 1..(i - 1) : a[j] = b[j]

\* str::parse for an unsigned integer type with the given MAX: an optional
\* "+", then one or more digits, and no overflow.
ParseUnsigned(text, max) ==
    LET ds == IF text # <<>> /\ text[1] = "+" THEN Tail(text) ELSE text
    IN IF /\ ds # <<>>
          /\ \A i \in 1..Len(ds) : ds[i] \in Digits
          /\ LeqDigits(StripZeros(ds), max)
       THEN Some(DecimalValue(ds))
       ELSE None

\* u8::to_ascii_lowercase on the letters of the float grammar.
LowerCase(c) ==
    CASE c = "A" -> "a" [] c = "E" -> "e" [] c = "F" -> "f" [] c = "I" -> "i"
      [] c = "N" -> "n" [] c = "T" -> "t" [] c = "Y" -> "y" [] OTHER -> c

RECURSIVE StripLeadingZeros(_)
StripLeadingZeros(ds) ==
    IF ds # <<>> /\ ds[1] = "0" THEN StripLeadingZeros(Tail(ds)) ELSE ds

RECURSIVE StripTrailingZeros(_)
StripTrailingZeros(ds) ==
    IF ds # <<>> /\ ds[Len(ds)] = "0"
    THEN StripTrailingZeros(SubSeq(ds, 1, Len(ds) - 1))
    ELSE ds

\* Twice the decimal numeral ds (most significant digit first): a digit of
\* five or more carries one into the digit before it.
DoubleDigits(ds) ==
    (IF ds[1] >= 5 THEN <<1>> ELSE <<>>)
    \o [i \in 1..Len(ds) |->
           (2 * ds[i] + (IF i < Len(ds) /\ ds[i + 1] >= 5 THEN 1 ELSE 0)) % 10]

\* Half the decimal numeral ds, with one more digit after the point: an odd
\* digit leaves five to the digit after it.
HalveDigits(ds) ==
    (IF ds[1] >= 2 THEN <<ds[1] \div 2>> ELSE <<>>)
    \o [i \in 1..Len(ds) |->
           5 * (ds[i] % 2) + (IF i < Len(ds) THEN ds[i + 1] \div 2 ELSE 0)]

RECURSIVE WholeValue(_)
WholeValue(ds) ==
    IF ds = <<>> THEN 0 ELSE WholeValue(SubSeq(ds, 1, Len(ds) - 1)) * 10 + ds[Len(ds)]

\* The whole part of the numeral ds with scale digits after the point; a
\* whole part of nine digits or more is reported as 2^24, which it exceeds.
F32Whole(ds, scale) ==
    IF Len(ds) - scale > 8 THEN 2^24
    ELSE IF Len(ds) <= scale THEN 0
    ELSE WholeValue(SubSeq(ds, 1, Len(ds) - scale))

\* The digits after the point of the numeral ds with scale digits after it.
F32Fraction(ds, scale) ==
    IF Len(ds) >= scale THEN SubSeq(ds, Len(ds) - scale + 1, Len(ds))
    ELSE [i \in 1..(scale - Len(ds)) |-> 0] \o ds

Double5(ds) == DoubleDigits(DoubleDigits(DoubleDigits(DoubleDigits(DoubleDigits(ds)))))

Halve5(ds) == HalveDigits(HalveDigits(HalveDigits(HalveDigits(HalveDigits(ds)))))

\* value = ds * 10^-scale * 2^binary throughout: the number is halved or
\* doubled, ten times at once while it is far away, until its whole part has
\* the 24 bits of an f32 significand, or the exponent of the subnormals
\* (-149) is reached.
RECURSIVE F32Scale(_, _, _)
F32Scale(ds, scale, binary) ==
    IF Len(ds) - scale > 11
    THEN F32Scale(Halve5(Halve5(ds)), scale + 10, binary + 10)
    ELSE IF F32Whole(ds, scale) >= 2^24
    THEN F32Scale(HalveDigits(ds), scale + 1, binary + 1)
    ELSE IF F32Whole(ds, scale) < 2^13 /\ binary >= -139
    THEN F32Scale(Double5(Double5(ds)), scale, binary - 10)
    ELSE IF F32Whole(ds, scale) < 2^23 /\ binary > -149
    THEN F32Scale(DoubleDigits(ds), scale, binary - 1)
    ELSE [scale |-> scale, binary |-> binary, digits |-> ds]

\* Round to nearest, ties to even: one more when the digits after the point
\* are above one half, or are one half and the whole part is odd.
F32RoundUp(whole, fraction) ==
    /\ fraction # <<>>
    /\ \/ fraction[1] > 5
       \/ /\ fraction[1] = 5
          /\ \/ \E i \in 2..Len(fraction) : fraction[i] # 0
             \/ whole % 2 = 1

F32Infinity(negative) == [negative |-> negative, exponent |-> 255, mantissa |-> 0]

F32Zero(negative) == [negative |-> negative, exponent |-> 0, mantissa |-> 0]

\* The fields of the f32 with the given significand (below 2^24 after the
\* carry of the rounding is taken) and binary exponent: a subnormal below
\* 2^23, an infinity above the largest exponent.
F32Fields(negative, significand, binary) ==
    IF significand < 2^23
    THEN [negative |-> negative, exponent |-> 0, mantissa |-> significand]
    ELSE IF binary + 150 >= 255 THEN F32Infinity(negative)
    ELSE [negative |-> negative, exponent |-> binary + 150, mantissa |-> significand - 2^23]

F32Round(negative, scaled) ==
    LET whole == F32Whole(scaled.digits, scaled.scale)
                 + (IF F32RoundUp(F32Whole(scaled.digits, scaled.scale),
                                  F32Fraction(scaled.digits, scaled.scale))
                    THEN 1 ELSE 0)
    IN IF whole = 2^24 THEN F32Fields(negative, 2^23, scaled.binary + 1)
       ELSE F32Fields(negative, whole, scaled.binary)

\* The f32 nearest to significant * 10^power, for a numeral without zeros at
\* either end.
F32Nearest(negative, significant, power) ==
    F32Round(negative,
             F32Scale([i \in 1..Len(significant) |-> DigitValue(significant[i])]
                          \o [i \in 1..power |-> 0],
                      IF power < 0 THEN 0 - power ELSE 0,
                      0))

\* The finite number that was read, as the f32 it is rounded to: the sign,
\* the biased exponent and the 23 bits of the mantissa. A number of 10^39 or
\* more is beyond the f32 range and gives an infinity; one below 10^-46 is
\* below half the smallest subnormal and gives zero.
F32Finite(negative, mantissa_digits, power) ==
    LET nonzero == StripLeadingZeros(mantissa_digits)
        significant == StripTrailingZeros(nonzero)
    IN IF significant = <<>> THEN F32Zero(negative)
       ELSE IF power + Len(nonzero) > 39 THEN F32Infinity(negative)
       ELSE IF power + Len(nonzero) < -45 THEN F32Zero(negative)
       ELSE F32Nearest(negative, significant, power + (Len(nonzero) - Len(significant)))

\* The mantissa: digits with at most one "." and at least one digit.
F32Number(negative, mantissa, written) ==
    LET dots == {i \in 1..Len(mantissa) : mantissa[i] = "."}
        dot == IF dots = {} THEN Len(mantissa) + 1 ELSE CHOOSE i \in dots : TRUE
    IN IF /\ Cardinality(dots) <= 1
          /\ \A i \in 1..Len(mantissa) : mantissa[i] \in Digits \cup {"."}
          /\ Len(mantissa) - Cardinality(dots) >= 1
       THEN Some(F32Finite(negative,
                           SubSeq(mantissa, 1, dot - 1) \o SubSeq(mantissa, dot + 1, Len(mantissa)),
                           written - (IF dots = {} THEN 0 ELSE Len(mantissa) - dot)))
       ELSE None

\* The digits of the exponent are accumulated while the exponent is below
\* 0x10000: every exponent beyond that gives the same value as 0x10000.
RECURSIVE ExponentValue(_, _)
ExponentValue(expdigits, exponent) ==
    IF expdigits = <<>> THEN exponent
    ELSE ExponentValue(Tail(expdigits),
                       IF exponent < 65536 THEN 10 * exponent + DigitValue(expdigits[1])
                       ELSE exponent)

\* The exponent after "e": an optional sign and one or more digits.
F32Exponent(exptext) ==
    LET expdigits == IF exptext # <<>> /\ exptext[1] \in {"+", "-"}
                     THEN Tail(exptext) ELSE exptext
    IN IF expdigits # <<>> /\ \A i \in 1..Len(expdigits) : expdigits[i] \in Digits
       THEN Some(IF exptext[1] = "-" THEN 0 - ExponentValue(expdigits, 0)
                 ELSE ExponentValue(expdigits, 0))
       ELSE None

\* A number in decimal notation, with or without an exponent.
F32Decimal(negative, unsigned) ==
    LET es == {i \in 1..Len(unsigned) : unsigned[i] = "e"}
    IN IF es = {} THEN F32Number(negative, unsigned, 0)
       ELSE LET epos == CHOOSE i \in es : \A j \in es : i <= j
                written == F32Exponent(SubSeq(unsigned, epos + 1, Len(unsigned)))
            IN IF written = None THEN None
               ELSE F32Number(negative, SubSeq(unsigned, 1, epos - 1), written[1])

\* What follows the sign: "inf", "infinity", "nan" or a decimal number.
F32Unsigned(negative, unsigned) ==
    IF unsigned \in {<<"i", "n", "f">>, <<"i", "n", "f", "i", "n", "i", "t", "y">>}
    THEN Some(F32Infinity(negative))
    ELSE IF unsigned = <<"n", "a", "n">>
    THEN Some([negative |-> negative, exponent |-> 255, mantissa |-> 2^22])
    ELSE F32Decimal(negative, unsigned)

\* str::parse::<f32>: an optional sign, then "inf", "infinity" or "nan" in
\* any letter case, or digits with at most one "." and at least one digit,
\* optionally followed by "e" or "E", an optional sign and one or more
\* digits. The value is the f32 that the text is rounded to.
ParseF32(text) ==
    LET skip == IF text # <<>> /\ text[1] \in {"+", "-"} THEN 1 ELSE 0
    IN F32Unsigned(skip = 1 /\ text[1] = "-",
                   [i \in 1..(Len(text) - skip) |-> LowerCase(text[i + skip])])

\* options.get(key).and_then(|s| s.parse::<f32>().ok())
OptionF32(options, key) == IF key \in DOMAIN options THEN ParseF32(options[key]) ELSE None

\* Variant: a value that does not parse is replaced by the default.
OptionUnsigned_OrDefault(options, key, max) ==
    IF key \in DOMAIN options
    THEN IF ParseUnsigned(options[key], max) = None THEN Some(0)
         ELSE ParseUnsigned(options[key], max)
    ELSE None

\* options.get(key).and_then(|s| s.parse::<uN>().ok())
OptionUnsigned(options, key, max) ==
    IF key \in DOMAIN options THEN ParseUnsigned(options[key], max) ELSE None

\* conversions::create_request
create_request(messages, config) ==
    LET options == OptionsMap(config.provider_options)
        completion_messages == [i \in 1..Len(messages) |-> ConvertMessage(messages[i])]
        tools == ConvertTools(config.tools, 1, <<>>)
    IN IF ~tools.ok THEN tools
       ELSE OkValue(
              [messages |-> completion_messages,
               model |-> config.model,
               frequency_penalty |-> OptionF32(options, "frequency_penalty"),
               max_completion_tokens |-> config.max_tokens,
               n |-> OptionUnsigned(options, "n", U32Max),
               presence_penalty |-> OptionF32(options, "presence_penalty"),
               seed |-> OptionUnsigned(options, "seed", U32Max),
               stop |-> config.stop_sequences,
               stream |-> Some(FALSE),
               stream_options |-> None,
               temperature |-> config.temperature,
               tool_choice |-> config.tool_choice,
               tools |-> tools.value[1],
               top_logprobs |-> OptionUnsigned(options, "top_logprobs", U8Max),
               top_p |-> OptionF32(options, "top_p"),
               user |-> IF "user_id" \in DOMAIN options THEN Some(options["user_id"]) ELSE None])

\* Variant: the Tool message carries the placeholder correlation id.
RECURSIVE tool_results_to_messages_UnknownId(_)
tool_results_to_messages_UnknownId(tool_results) ==
    IF tool_results = <<>> THEN <<>>
    ELSE LET tool_call == Head(tool_results)[1]
             tool_result == Head(tool_results)[2]
         IN <<[role |-> "assistant", name |-> None, content |-> None,
               tool_calls |-> Some(<<[id |-> tool_call.id,
                                      function |-> [name |-> tool_call.name,
                                                    arguments |-> tool_call.arguments_json],
                                      index |-> None]>>)],
              [role |-> "tool", name |-> None,
               content |-> <<[type |-> "text",
                              text |-> IF tool_result.type = "Success"
                                       THEN tool_result.result_json
                                       ELSE tool_result.error_message]>>,
               tool_call_id |-> "unknown"]>>
            \o tool_results_to_messages_UnknownId(Tail(tool_results))

\* conversions::tool_results_to_messages: an Assistant message with the
\* call and a Tool message with its result, per pair.
RECURSIVE tool_results_to_messages(_)
tool_results_to_messages(tool_results) ==
    IF tool_results = <<>> THEN <<>>
    ELSE LET tool_call == Head(tool_results)[1]
             tool_result == Head(tool_results)[2]
         IN <<[role |-> "assistant", name |-> None, content |-> None,
               tool_calls |-> Some(<<[id |-> tool_call.id,
                                      function |-> [name |-> tool_call.name,
                                                    arguments |-> tool_call.arguments_json],
                                      index |-> None]>>)],
              [role |-> "tool", name |-> None,
               content |-> <<[type |-> "text",
                              text |-> IF tool_result.type = "Success"
                                       THEN tool_result.result_json
                                       ELSE tool_result.error_message]>>,
               tool_call_id |-> tool_call.id]>>
            \o tool_results_to_messages(Tail(tool_results))

\* conversions::convert_tool_call
convert_tool_call(tool_call) ==
    ToolCall(tool_call.id, tool_call.function.name, tool_call.function.arguments)

\* Variant: the response is echoed as the provider payload of the error.
NoChoices_EchoResponse(response) ==
    ChatError(Error("InternalError", <<"No choices in response">>, Some(response)))

\* The else branch of `if let Some(choice) = choice`.
NoChoices(response) ==
    ChatError(Error("InternalError", <<"No choices in response">>, None))

\* Variant: tool calls make a ToolRequest whether or not there is text.
OnlyToolCalls_IgnoreText(contents, tool_calls) == tool_calls # <<>>

\* contents.is_empty() && !tool_calls.is_empty()
OnlyToolCalls(contents, tool_calls) == contents = <<>> /\ tool_calls # <<>>

\* conversions::process_response
process_response(response) ==
    IF Len(response.choices) = 0
    THEN NoChoices(response)
    ELSE LET choice == response.choices[1]
             contents == IF choice.message.content # None
                         THEN <<Text(choice.message.content[1])>> ELSE <<>>
             calls == IF choice.message.tool_calls # None
                      THEN choice.message.tool_calls[1] ELSE <<>>
             tool_calls == [i \in 1..Len(calls) |-> convert_tool_call(calls[i])]
         IN IF OnlyToolCalls(contents, tool_calls)
            THEN ChatToolRequest(tool_calls)
            ELSE ChatMessage(
                   [id |-> response.id,
                    content |-> contents,
                    tool_calls |-> tool_calls,
                    metadata |->
                      [finish_reason |-> IF choice.finish_reason = None THEN None
                                         ELSE Some(convert_finish_reason(choice.finish_reason[1])),
                       usage |-> IF response.usage = None THEN None
                                 ELSE Some(convert_usage(response.usage[1])),
                       provider_id |-> Some(response.id),
                       timestamp |-> Some(to_string(response.created)),
                       provider_metadata_json |-> None]])

\* golem_llm::error::error_code_from_status
error_code_from_status(status) ==
    IF status.code = 429 THEN "RateLimitExceeded"
    ELSE IF status.code \in {401, 402, 403} THEN "AuthenticationFailed"
    ELSE IF status.code \in 400..499 THEN "InvalidRequest"
    ELSE "InternalError"

\* golem_llm::error::from_reqwest_error
from_reqwest_error(details, err) == Error("InternalError", <<details, ": ", err>>, None)

\* golem_llm::error::from_event_source_error
from_event_source_error(details, err) ==
    Error(IF err.kind = "InvalidStatusCode" THEN error_code_from_status(err.status)
          ELSE "InternalError",
          <<details, ": ", err.kind>>, None)

\* Deserialize for CompletionsResponse: id is a required String, finish
\* reasons are among the known names and tool calls are complete.
ResponseDeserializes(json) ==
    /\ json.id # None
    /\ json.model # None
    /\ \A i \in 1..Len(json.choices) :
          /\ json.choices[i].index # None
          /\ json.choices[i].message.role # None
          /\ json.choices[i].finish_reason # None =>
                json.choices[i].finish_reason[1] \in FinishReasonNames
          /\ json.choices[i].message.tool_calls # None =>
                \A j \in 1..Len(json.choices[i].message.tool_calls[1]) :
                    ToolCallDeserializes(json.choices[i].message.tool_calls[1][j])

\* The CompletionsResponse value produced by a successful deserialization.
TypedResponse(json) ==
    [id |-> json.id[1], created |-> json.created,
     choices |-> [i \in 1..Len(json.choices) |->
                    [finish_reason |-> json.choices[i].finish_reason,
                     message |->
                       [content |-> json.choices[i].message.content,
                        tool_calls |->
                          IF json.choices[i].message.tool_calls = None THEN None
                          ELSE Some([j \in 1..Len(json.choices[i].message.tool_calls[1]) |->
                                       TypedToolCall(json.choices[i].message.tool_calls[1][j])])]]],
     usage |-> json.usage]

\* client::parse_response
parse_response(response) ==
    IF ~(response.status.code \in 200..299)
    THEN ErrValue(Error(error_code_from_status(response.status),
                        <<"OpenAI API error: HTTP ", response.status.text>>, None))
    ELSE IF response.body = None
    THEN ErrValue(from_reqwest_error("Failed to read response body", "body"))
    ELSE IF response.body[1].json = None \/ ~ResponseDeserializes(response.body[1].json[1])
    THEN ErrValue(Error("InternalError",
                        <<"Failed to parse OpenAI API response: ", JsonError>>,
                        Some(response.body[1])))
    ELSE OkValue(TypedResponse(response.body[1].json[1]))

\* The POST both client methods build.
HttpPost(client, accept, request) ==
    [method |-> "POST", url |-> "https://api.openai.com/v1/chat/completions",
     bearer_auth |-> client.openai_api_key, accept |-> accept, json |-> request]

\* CompletionsApi::new
CompletionsApi_new(openai_api_key) == [openai_api_key |-> openai_api_key]

\* CompletionsApi::send_messages: the call it makes and what it returns,
\* given what the network answers.
send_messages(client, request, reply) ==
    [http |-> <<HttpPost(client, None, request)>>,
     result |-> IF reply.error # None
                THEN ErrValue(from_reqwest_error("Request failed", reply.error[1]))
                ELSE parse_response(reply)]

\* golem_llm::event_source::EventSource::new
EventSource_new(response) ==
    IF response.status.code = 200 /\ response.event_stream
    THEN OkValue("EventSource")
    ELSE IF response.status.code # 200
    THEN ErrValue([kind |-> "InvalidStatusCode", status |-> response.status])
    ELSE ErrValue([kind |-> "InvalidContentType", status |-> response.status])

\* CompletionsApi::stream_send_messages
stream_send_messages(client, request, reply) ==
    [http |-> <<HttpPost(client, Some("text/event-stream"), request)>>,
     result |-> IF reply.error # None
                THEN ErrValue(from_reqwest_error("Request failed", reply.error[1]))
                ELSE LET source == EventSource_new(reply)
                     IN IF source.ok THEN source
                        ELSE ErrValue(from_event_source_error("Failed to create SSE stream",
                                                              source.error[1]))]

\* The fields of the session OpenAIChatStream::new(stream) builds.
OpenAIChatStream_new(source) ==
    [stream |-> Some(source), failure |-> None, finished |-> FALSE, finish_reason |-> None,
     json_fragments |-> [k \in {} |-> JsonFragment("", "", <<>>)]]

\* Variant: the session reports a generic error instead of the given one.
OpenAIChatStream_failed_Generic(error) ==
    [stream |-> None,
     failure |-> Some([error EXCEPT !.code = "InternalError", !.provider_error_json = None,
                                    !.message = <<"stream failed">>]),
     finished |-> FALSE, finish_reason |-> None,
     json_fragments |-> [k \in {} |-> JsonFragment("", "", <<>>)]]

\* The fields of the session OpenAIChatStream::failed(error) builds.
OpenAIChatStream_failed(error) ==
    [stream |-> None, failure |-> Some(error), finished |-> FALSE, finish_reason |-> None,
     json_fragments |-> [k \in {} |-> JsonFragment("", "", <<>>)]]

\* An entry point returns its value; http lists the requests it issued.
Returned(outcome, http) == [outcome |-> outcome, http |-> http]

\* Variant: a failed request is sent a second time.
request_Retry(client, req, reply) ==
    LET sent == send_messages(client, req, reply)
        again == send_messages(client, req, reply)
    IN IF sent.result.ok
       THEN Returned(process_response(sent.result.value[1]), sent.http)
       ELSE Returned(IF again.result.ok THEN process_response(again.result.value[1])
                     ELSE ChatError(again.result.error[1]),
                     sent.http \o again.http)

\* OpenAIComponent::request
request(client, req, reply) ==
    LET sent == send_messages(client, req, reply)
    IN Returned(IF sent.result.ok THEN process_response(sent.result.value[1])
                ELSE ChatError(sent.result.error[1]),
                sent.http)

\* OpenAIComponent::streaming_request
streaming_request(client, req, reply) ==
    LET sent == stream_send_messages(client, [req EXCEPT !.stream = Some(TRUE)], reply)
    IN Returned(IF sent.result.ok THEN OpenAIChatStream_new(sent.result.value[1])
                ELSE OpenAIChatStream_failed(sent.result.error[1]),
                sent.http)

ENV_VAR_NAME == "OPENAI_API_KEY"

\* golem_llm::config::with_config_key(key, fail, succeed): the value that
\* succeed is applied to, or the error that fail is applied to.
with_config_key(env, key) ==
    IF key \in DOMAIN env THEN OkValue(env[key])
    ELSE ErrValue(Error("InternalError", <<"Missing config key: ", key>>, None))

\* Guest::send
send(env, messages, config, reply) ==
    LET key == with_config_key(env, ENV_VAR_NAME)
    IN IF ~key.ok THEN Returned(ChatError(key.error[1]), <<>>)
       ELSE LET client == CompletionsApi_new(key.value[1])
                created == create_request(messages, config)
            IN IF created.ok THEN request(client, created.value[1], reply)
               ELSE Returned(ChatError(created.error[1]), <<>>)

\* Guest::continue_
continue_(env, messages, tool_results, config, reply) ==
    LET key == with_config_key(env, ENV_VAR_NAME)
    IN IF ~key.ok THEN Returned(ChatError(key.error[1]), <<>>)
       ELSE LET client == CompletionsApi_new(key.value[1])
                created == create_request(messages, config)
            IN IF created.ok
               THEN request(client,
                            [created.value[1] EXCEPT
                               !.messages = @ \o tool_results_to_messages(tool_results)],
                            reply)
               ELSE Returned(ChatError(created.error[1]), <<>>)

\* ExtendedGuest::unwrapped_stream
unwrapped_stream(env, messages, config, reply) ==
    LET key == with_config_key(env, ENV_VAR_NAME)
    IN IF ~key.ok THEN Returned(OpenAIChatStream_failed(key.error[1]), <<>>)
       ELSE LET client == CompletionsApi_new(key.value[1])
                created == create_request(messages, config)
            IN IF created.ok THEN streaming_request(client, created.value[1], reply)
               ELSE Returned(OpenAIChatStream_failed(created.error[1]), <<>>)

\* The tool definitions a configuration may list.
SchemaObject == [text |-> <<>>, json |-> Some("{\"type\":\"object\"}")]
SchemaBroken == [text |-> <<"{oops">>, json |-> None]

ToolDefinition(name, description, parameters_schema) ==
    [name |-> name, parameters_schema |-> parameters_schema, description |-> description]

ToolDefinitions ==
    {ToolDefinition("lookup", Some("find"), SchemaObject),
     ToolDefinition("search", None, SchemaBroken),
     ToolDefinition("fetch", None, SchemaBroken)}

(***************************************************************************)
(* State: the fields of OpenAIChatStream, and the history of the calls     *)
(* made on it (frames passed to decode_message, what each call returned,   *)
(* and which fragment of the frame each emitted tool call came from).           *)
(***************************************************************************)
VARIABLES stream, failure, finished, finish_reason, json_fragments,
          frames, results, positions,
          delivered, other, retry, entry

\* delivered: the batches the session adapter has returned to the consumer.
\* other: a second OpenAIChatStream living in the same process.
\* retry: the arguments and the result of a retry_prompt call.
\* entry: the arguments and the outcome of a send / continue_ / stream call.
vars == <<stream, failure, finished, finish_reason, json_fragments, frames, results, positions,
          delivered, other, retry, entry>>

\* The parts of the state a decoder fed frames does not touch.
rest == <<delivered, other, retry, entry>>

DecoderState ==
    [finished |-> finished, finish_reason |-> finish_reason, json_fragments |-> json_fragments]

EmptyFragments == [k \in {} |-> JsonFragment("", "", <<>>)]

\* OpenAIChatStream::new(stream)
New ==
    /\ stream = Some("EventSource")
    /\ failure = None
    /\ finished = FALSE
    /\ finish_reason = None
    /\ json_fragments = EmptyFragments

\* OpenAIChatStream::failed(error)
Failed(error) ==
    /\ stream = None
    /\ failure = Some(error)
    /\ finished = FALSE
    /\ finish_reason = None
    /\ json_fragments = EmptyFragments

\* The fields of a freshly constructed OpenAIChatStream::new, with its history.
FreshSession ==
    [finished |-> FALSE, finish_reason |-> None, json_fragments |-> EmptyFragments,
     frames |-> <<>>, results |-> <<>>]

\* No retry_prompt call and no entry-point call has been made.
NoRetry == [original |-> <<>>, partial |-> <<>>, extended |-> None]
NoEntry ==
    [op |-> "none", env |-> [k \in {} |-> ""], messages |-> <<>>, tool_results |-> <<>>,
     config |-> None, reply |-> None, http |-> <<>>, outcome |-> None]

Init ==
    /\ New \/ Failed(with_config_key([k \in {} |-> ""], ENV_VAR_NAME).error[1])
    /\ frames = <<>>
    /\ results = <<>>
    /\ positions = <<>>
    /\ delivered = <<>>
    /\ other = FreshSession
    /\ retry = NoRetry
    /\ entry = NoEntry

\* decode_message is called with a frame.  The method reads neither the
\* transport nor the failure, so it is callable on any session.
DecodeMessage(raw) ==
    /\ Len(frames) < MaxFrames
    /\ LET r == decode_message(raw, DecoderState) IN
         /\ finished' = r.st.finished
         /\ finish_reason' = r.st.finish_reason
         /\ json_fragments' = r.st.json_fragments
         /\ frames' = Append(frames, raw)
         /\ results' = Append(results, r.result)
         /\ positions' = Append(positions, r.positions)
    /\ UNCHANGED <<stream, failure>>
    /\ UNCHANGED rest

\* LlmChatStreamState::set_finished, called by the session adapter.
SetFinished ==
    /\ finished' = set_finished(DecoderState).finished
    /\ UNCHANGED <<stream, failure, finish_reason, json_fragments, frames, results, positions>>
    /\ UNCHANGED rest

\* A decoder fed a sequence of frames.
Next == \E raw \in Frames : DecodeMessage(raw)

Spec == Init /\ [][Next]_vars

\* The decoder together with the adapter's direct use of set_finished.
NextLifecycle ==
    \/ \E raw \in Frames : DecodeMessage(raw)
    \/ SetFinished

LifecycleSpec == Init /\ [][NextLifecycle]_vars

(***************************************************************************)
(* The session adapter (golem_llm::chat_stream::LlmChatStream), which      *)
(* drives the transport and forwards each frame to decode_message.         *)
(***************************************************************************)
MaxBatches == 2

\* StreamEvent::Error(error)
ErrorEvent(error) == [type |-> "Error", error |-> error]

\* The Error a decode failure is translated into.
DecodeError(msg) == Error("InternalError", msg, None)

\* The batch get-next returns after a frame was decoded, if it returns one:
\* the event, or the Error of a decode failure, or the empty batch when the
\* frame ended the stream; None while the call keeps waiting for frames.
BatchAfter(r) ==
    IF ~r.result.ok THEN Some(<<ErrorEvent(DecodeError(r.result.err))>>)
    ELSE IF r.result.event # None THEN Some(<<r.result.event[1]>>)
    ELSE IF r.st.finished THEN Some(<<>>)
    ELSE None

\* get-next on an open session reads the next frame of the transport.
GetNextFrame(raw) ==
    /\ ~finished
    /\ stream # None
    /\ Len(frames) < MaxFrames
    /\ LET r == decode_message(raw, DecoderState) IN
         /\ finished' = IF r.result.ok THEN r.st.finished ELSE TRUE
         /\ finish_reason' = r.st.finish_reason
         /\ json_fragments' = r.st.json_fragments
         /\ frames' = Append(frames, raw)
         /\ results' = Append(results, r.result)
         /\ positions' = Append(positions, r.positions)
         /\ delivered' = IF BatchAfter(r) = None THEN delivered
                         ELSE Append(delivered, BatchAfter(r)[1])
    /\ UNCHANGED <<stream, failure, other, retry, entry>>

\* get-next on a session constructed with failed(error).
GetNextFailed ==
    /\ ~finished
    /\ failure # None
    /\ finished' = TRUE
    /\ delivered' = Append(delivered, <<ErrorEvent(failure[1])>>)
    /\ UNCHANGED <<stream, failure, finish_reason, json_fragments, frames, results, positions,
                   other, retry, entry>>

\* The number of empty batches returned so far.
EmptyBatches == Cardinality({i \in DOMAIN delivered : delivered[i] = <<>>})

\* get-next on a finished session.
GetNextFinished ==
    /\ finished
    /\ EmptyBatches < MaxBatches
    /\ delivered' = Append(delivered, <<>>)
    /\ UNCHANGED <<stream, failure, finished, finish_reason, json_fragments, frames, results,
                   positions, other, retry, entry>>

NextSession ==
    \/ \E raw \in Frames : GetNextFrame(raw)
    \/ GetNextFailed
    \/ GetNextFinished

SessionSpec == Init /\ [][NextSession]_vars

\* The consumer keeps calling get-next: a call that can return does return.
SessionLiveSpec ==
    SessionSpec /\ WF_vars(GetNextFinished) /\ WF_vars(GetNextFailed)

(***************************************************************************)
(* Two sessions in one process, their frames arriving interleaved.         *)
(***************************************************************************)
IsolationFrames == {FrameToolFirst, FrameToolCont, FrameStop, FrameDone}

\* The decoder fields of the second session.
OtherState ==
    [finished |-> other.finished, finish_reason |-> other.finish_reason,
     json_fragments |-> other.json_fragments]

\* Variant: the fragment table is one process-wide map.
SessionState_SharedTable(own, foreign) ==
    [own EXCEPT !.json_fragments =
        [k \in DOMAIN own.json_fragments \cup DOMAIN foreign.json_fragments |->
            IF k \in DOMAIN own.json_fragments THEN own.json_fragments[k]
            ELSE foreign.json_fragments[k]]]

\* The state a call on one session works on: self.finished, self.finish_reason
\* and self.json_fragments are fields of that OpenAIChatStream instance.
SessionState(own, foreign) == own

IsolationInit == Init /\ stream # None

\* A frame of the first session's transport is decoded by the first session.
DecodeFirst(raw) ==
    /\ Len(frames) < MaxFrames
    /\ LET r == decode_message(raw, SessionState(DecoderState, OtherState)) IN
         /\ finished' = r.st.finished
         /\ finish_reason' = r.st.finish_reason
         /\ json_fragments' = r.st.json_fragments
         /\ frames' = Append(frames, raw)
         /\ results' = Append(results, r.result)
         /\ positions' = Append(positions, r.positions)
    /\ UNCHANGED <<stream, failure, delivered, other, retry, entry>>

\* A frame of the second session's transport is decoded by the second session.
DecodeSecond(raw) ==
    /\ Len(other.frames) < MaxFrames
    /\ LET r == decode_message(raw, SessionState(OtherState, DecoderState)) IN
         other' = [finished |-> r.st.finished, finish_reason |-> r.st.finish_reason,
                   json_fragments |-> r.st.json_fragments,
                   frames |-> Append(other.frames, raw),
                   results |-> Append(other.results, r.result)]
    /\ UNCHANGED <<stream, failure, finished, finish_reason, json_fragments, frames, results,
                   positions, delivered, retry, entry>>

NextIsolation ==
    \/ \E raw \in IsolationFrames : DecodeFirst(raw)
    \/ \E raw \in IsolationFrames : DecodeSecond(raw)

IsolationSpec == IsolationInit /\ [][NextIsolation]_vars

(***************************************************************************)
(* retry_prompt: the continuation prompt built after an interruption.      *)
(***************************************************************************)
MaxOriginal == 2
MaxPartial == 2

\* golem_llm Message { role, name, content }
Message(role, name, content) == [name |-> name, content |-> content, role |-> role]

SystemInstruction ==
    <<"You were asked the same question previously, but the response was interrupted before completion. ",
      "Please continue your response from where you left off. ",
      "Do not include the part of the response that was already seen.">>
QuestionHeader == <<"Here is the original question:">>
PartialHeader == <<"Here is the partial response that was successfully received:">>

\* format!("<tool-call id=\"{}\" name=\"{}\" arguments=\"{}\"/>", id, name, arguments_json)
ToolCallMarker(tool_call) ==
    <<"<tool-call id=\"", tool_call.id, "\" name=\"", tool_call.name, "\" arguments=\"">>
        \o tool_call.arguments_json \o <<"\"/>">>

\* Variant: the tool calls of a delta are rendered only when it has no content.
DeltaAsContent_ContentOrTools(delta) ==
    IF delta.content # None THEN delta.content[1]
    ELSE IF delta.tool_calls # None
    THEN [i \in 1..Len(delta.tool_calls[1]) |-> Text(ToolCallMarker(delta.tool_calls[1][i]))]
    ELSE <<>>

\* Variant: only the first tool call of a delta is rendered.
DeltaAsContent_FirstToolCall(delta) ==
    (IF delta.content # None THEN delta.content[1] ELSE <<>>)
    \o (IF delta.tool_calls # None /\ delta.tool_calls[1] # <<>>
        THEN <<Text(ToolCallMarker(delta.tool_calls[1][1]))>>
        ELSE <<>>)

\* One iteration of `for delta in partial_result`: the parts it appends.
DeltaAsContent(delta) ==
    (IF delta.content # None THEN delta.content[1] ELSE <<>>)
    \o (IF delta.tool_calls # None
        THEN [i \in 1..Len(delta.tool_calls[1]) |-> Text(ToolCallMarker(delta.tool_calls[1][i]))]
        ELSE <<>>)

\* partial_result_as_content after the loop has run from delta i on.
RECURSIVE PartialResultAsContent(_, _, _)
PartialResultAsContent(partial_result, i, acc) ==
    IF i > Len(partial_result) THEN acc
    ELSE PartialResultAsContent(partial_result, i + 1, acc \o DeltaAsContent(partial_result[i]))

\* Variant: the partial response is pushed before the original messages.
retry_prompt_PartialFirst(original_messages, partial_result) ==
    <<Message("System", None, <<Text(SystemInstruction)>>),
      Message("User", None, <<Text(QuestionHeader)>>),
      Message("User", None,
              <<Text(PartialHeader)>> \o PartialResultAsContent(partial_result, 1, <<>>))>>
    \o original_messages

\* OpenAIComponent::retry_prompt(original_messages, partial_result)
retry_prompt(original_messages, partial_result) ==
    <<Message("System", None, <<Text(SystemInstruction)>>),
      Message("User", None, <<Text(QuestionHeader)>>)>>
    \o original_messages
    \o <<Message("User", None,
                 <<Text(PartialHeader)>> \o PartialResultAsContent(partial_result, 1, <<>>))>>

\* The messages and deltas retry_prompt is called with.
OriginalMessages ==
    {Message("System", None, <<Text(TextB)>>),
     Message("User", Some("vigoo"), <<Text(TextA), Text(TextB)>>),
     Message("Assistant", None, <<Text(TextA)>>)}

PartialDeltas ==
    {Delta(Some(<<Text(TextA), Text(TextB)>>), None),
     Delta(None, Some(<<ToolCall("c1", "f", ArgsP), ToolCall("c2", "g", ArgsP \o ArgsQ)>>)),
     Delta(Some(<<Text(TextA)>>), Some(<<ToolCall("c1", "f", ArgsP \o ArgsQ)>>)),
     Delta(None, None)}

\* The sequences over S of length at most n.
SeqUpTo(S, n) == UNION {[1..k -> S] : k \in 0..n}

RetryInit ==
    /\ New
    /\ frames = <<>>
    /\ results = <<>>
    /\ positions = <<>>
    /\ delivered = <<>>
    /\ other = FreshSession
    /\ entry = NoEntry
    /\ \E o \in SeqUpTo(OriginalMessages, MaxOriginal), p \in SeqUpTo(PartialDeltas, MaxPartial) :
          retry = [original |-> o, partial |-> p, extended |-> None]

\* The framework calls retry_prompt with the checkpointed messages and deltas.
RetryPrompt ==
    /\ retry.extended = None
    /\ retry' = [retry EXCEPT !.extended = Some(retry_prompt(retry.original, retry.partial))]
    /\ UNCHANGED <<stream, failure, finished, finish_reason, json_fragments, frames, results,
                   positions, delivered, other, entry>>

NextRetry == RetryPrompt

RetrySpec == RetryInit /\ [][NextRetry]_vars

(***************************************************************************)
(* One call of an entry point: send, continue_ or stream.                  *)
(***************************************************************************)
\* The process environment, with and without the API key.
Envs == {[k \in {} |-> ""], [k \in {ENV_VAR_NAME} |-> "sk-1"]}

Config(tools, provider_options) ==
    [model |-> "gpt-4o", tools |-> tools, provider_options |-> provider_options,
     max_tokens |-> None, stop_sequences |-> None, temperature |-> None, tool_choice |-> None]

Configs ==
    {Config(tools, provider_options) :
        tools \in SeqUpTo(ToolDefinitions, MaxTools),
        provider_options \in {<<>>,
                              <<[value |-> <<"x">>, key |-> "n"],
                                [value |-> <<"4", "2">>, key |-> "seed"],
                                [value |-> <<"0", ".", "5">>, key |-> "top_p"],
                                [value |-> <<"2", "5", "6">>, key |-> "top_logprobs"]>>}}

EntryMessages ==
    {<<>>,
     <<Message("User", Some("vigoo"), <<Text(TextA)>>)>>,
     <<Message("System", None, <<Text(TextB)>>),
       Message("Tool", None, <<Text(TextA)>>)>>}

ToolResults ==
    {<<>>,
     <<<<ToolCall("c1", "f", ArgsP), [type |-> "Success", result_json |-> <<"r">>]>>,
       <<ToolCall("c2", "g", ArgsQ), [type |-> "Error", error_message |-> <<"e">>]>>>>}

HttpStatus(code, text) == [text |-> text, code |-> code]

\* What the network answers to a request, were one made.
Reply(error, status, event_stream, body) ==
    [error |-> error, status |-> status, body |-> body, event_stream |-> event_stream]

\* JSON shape of a chat.completion object, written with "model": "gpt-4o".
JsonResponse(id, choices, usage) ==
    [id |-> id, created |-> 17, choices |-> choices, usage |-> usage,
     model |-> Some("gpt-4o")]

\* JSON shape of one element of its "choices", written with "index": 0 and
\* "role": "assistant".
ResponseChoice(reason, content, tool_calls) ==
    [index |-> Some(0), finish_reason |-> reason,
     message |-> [content |-> content, tool_calls |-> tool_calls,
                  role |-> Some("assistant")]]

Replies ==
    {Reply(Some("connection refused"), HttpStatus(0, ""), FALSE, None),
     Reply(None, HttpStatus(401, "401 Unauthorized"), FALSE, None),
     Reply(None, HttpStatus(200, "200 OK"), FALSE, Some([text |-> <<"<html>">>, json |-> None])),
     Reply(None, HttpStatus(200, "200 OK"), FALSE,
           Some([text |-> <<>>, json |-> Some(JsonResponse(Some(ChunkId), <<>>, None))])),
     Reply(None, HttpStatus(200, "200 OK"), FALSE,
           Some([text |-> <<>>,
                 json |-> Some(JsonResponse(Some(ChunkId),
                                 <<ResponseChoice(Some("stop"), Some(TextA), None)>>,
                                 Some(UsageStats)))])),
     Reply(None, HttpStatus(200, "200 OK"), FALSE,
           Some([text |-> <<>>,
                 json |-> Some(JsonResponse(Some(ChunkId),
                                 <<ResponseChoice(Some("tool_calls"), None,
                                     Some(<<JsonToolCall(Some("c1"), Some("f"), Some(ArgsP), None)>>))>>,
                                 None))])),
     Reply(None, HttpStatus(200, "200 OK"), FALSE,
           Some([text |-> <<>>,
                 json |-> Some([JsonResponse(Some(ChunkId),
                                  <<ResponseChoice(Some("stop"), Some(TextA), None)>>,
                                  Some(UsageStats)) EXCEPT !.model = None])]))}

StreamReplies ==
    {Reply(Some("connection refused"), HttpStatus(0, ""), FALSE, None),
     Reply(None, HttpStatus(429, "429 Too Many Requests"), FALSE, None),
     Reply(None, HttpStatus(200, "200 OK"), FALSE, None),
     Reply(None, HttpStatus(200, "200 OK"), TRUE, None)}

Called(op, env, messages, tool_results, config, reply, returned) ==
    [op |-> op, env |-> env, messages |-> messages, tool_results |-> tool_results,
     config |-> Some(config), reply |-> Some(reply), http |-> returned.http,
     outcome |-> returned.outcome]

\* The caller invokes send.
Send(env, messages, config, reply) ==
    /\ entry.op = "none"
    /\ entry' = Called("send", env, messages, <<>>, config, reply,
                       LET r == send(env, messages, config, reply)
                       IN Returned(Some(r.outcome), r.http))
    /\ UNCHANGED <<stream, failure, finished, finish_reason, json_fragments, frames, results,
                   positions, delivered, other, retry>>

\* The caller invokes continue_.
Continue(env, messages, tool_results, config, reply) ==
    /\ entry.op = "none"
    /\ entry' = Called("continue", env, messages, tool_results, config, reply,
                       LET r == continue_(env, messages, tool_results, config, reply)
                       IN Returned(Some(r.outcome), r.http))
    /\ UNCHANGED <<stream, failure, finished, finish_reason, json_fragments, frames, results,
                   positions, delivered, other, retry>>

\* The caller invokes stream: the session it returns becomes the session.
Stream(env, messages, config, reply) ==
    /\ entry.op = "none"
    /\ LET r == unwrapped_stream(env, messages, config, reply)
       IN /\ entry' = Called("stream", env, messages, <<>>, config, reply,
                             Returned(None, r.http))
          /\ stream' = r.outcome.stream
          /\ failure' = r.outcome.failure
          /\ finished' = r.outcome.finished
          /\ finish_reason' = r.outcome.finish_reason
          /\ json_fragments' = r.outcome.json_fragments
    /\ frames' = <<>>
    /\ results' = <<>>
    /\ positions' = <<>>
    /\ delivered' = <<>>
    /\ UNCHANGED <<other, retry>>

NextEntry ==
    \/ \E env \in Envs, messages \in EntryMessages, config \in Configs, reply \in Replies :
          Send(env, messages, config, reply)
    \/ \E env \in Envs, messages \in EntryMessages, tool_results \in ToolResults,
          config \in Configs, reply \in Replies :
          Continue(env, messages, tool_results, config, reply)
    \/ \E env \in Envs, messages \in EntryMessages, config \in Configs, reply \in StreamReplies :
          Stream(env, messages, config, reply)

EntrySpec == Init /\ [][NextEntry]_vars

(***************************************************************************)
(* The two conversions on their own: create_request on a message list and  *)
(* a configuration, process_response on a deserialized response.           *)
(***************************************************************************)
MaxMessages == 2

\* ContentPart::Image(ImageReference::Url(..))
ImageUrl(url, detail) == [image_url |-> [url |-> url, detail |-> detail]]

\* ImageReference::Inline: the bytes of the image, its media type and detail.
ImageInline(data, mime_type, detail) ==
    [inline |-> [data |-> data, detail |-> detail, mime_type |-> mime_type]]

\* One message of each role; the user message carries an image as well, and
\* a second user message carries inline images of zero to four bytes.
RoleMessages ==
    {Message("System", None, <<Text(TextB)>>),
     Message("User", Some("vigoo"), <<Text(TextA), ImageUrl("https://img/1.png", Some("Low"))>>),
     Message("Assistant", Some("bot"), <<Text(TextA), Text(TextB)>>),
     Message("Tool", None, <<Text(ArgsP)>>),
     Message("User", None, <<ImageInline(<<1, 2, 3>>, "image/png", None),
                             ImageInline(<<255, 216, 255>>, "image/jpeg", Some("Low")),
                             ImageInline(<<>>, "image/jpeg", None),
                             ImageInline(<<102>>, "image/gif", Some("High")),
                             ImageInline(<<102, 111>>, "image/gif", Some("Auto")),
                             ImageInline(<<102, 111, 111, 98>>, "image/gif", None)>>)}

\* The choices a response may start with, and the choice that may follow.
FirstChoices ==
    {ResponseChoice(reason, content, tool_calls) :
        reason \in {None, Some("stop"), Some("tool_calls")},
        content \in {None, Some(<<>>), Some(TextA)},
        tool_calls \in {None, Some(<<>>),
                        Some(<<JsonToolCall(Some("c1"), Some("f"), Some(ArgsP), None)>>),
                        Some(<<JsonToolCall(Some("c1"), Some("f"), Some(ArgsP), Some(0)),
                               JsonToolCall(Some("c2"), Some("g"), Some(ArgsQ), Some(1))>>)}}

SecondChoice ==
    ResponseChoice(Some("length"), Some(TextB),
                   Some(<<JsonToolCall(Some("c9"), Some("h"), Some(ArgsQ), None)>>))

\* The deserialized responses process_response is applied to.
Responses ==
    {TypedResponse(JsonResponse(Some(id), <<>>, usage)) :
        id \in {ChunkId, "chatcmpl-2"}, usage \in {None, Some(UsageStats)}}
    \cup {TypedResponse(JsonResponse(Some(ChunkId), <<first>> \o more, usage)) :
            first \in FirstChoices, more \in {<<>>, <<SecondChoice>>},
            usage \in {None, Some(UsageStats)}}

\* Provider options whose six numeric values all fail to parse, and
\* options whose values all parse.
UnparsableOptions ==
    <<[value |-> <<"1", "e">>, key |-> "frequency_penalty"],
      [value |-> <<"-", "1">>, key |-> "n"],
      [value |-> <<>>, key |-> "presence_penalty"],
      [value |-> <<"4", ".", "2">>, key |-> "seed"],
      [value |-> <<"2", "5", "6">>, key |-> "top_logprobs"],
      [value |-> <<".">>, key |-> "top_p"],
      [value |-> <<"u">>, key |-> "user_id"]>>

ParsableOptions ==
    <<[value |-> <<"2", ".", "5", "e", "3">>, key |-> "frequency_penalty"],
      [value |-> <<"x">>, key |-> "n"],
      [value |-> <<"2">>, key |-> "n"],
      [value |-> <<"-", "I", "n", "f">>, key |-> "presence_penalty"],
      [value |-> <<"4", "2">>, key |-> "seed"],
      [value |-> <<"2", "5", "5">>, key |-> "top_logprobs"],
      [value |-> <<"1", "E", "-", "2">>, key |-> "top_p"]>>

\* Numbers beyond the f32 range, which parse to an infinity, and one below
\* half the smallest subnormal, which parses to zero.
OutOfRangeOptions ==
    <<[value |-> <<"-", "4", "e", "3", "8">>, key |-> "frequency_penalty"],
      [value |-> <<"1", "e", "-", "4", "6">>, key |-> "presence_penalty"],
      [value |-> <<"1", "e", "3", "9">>, key |-> "top_p"]>>

OptionConfigs ==
    {Config(tools, provider_options) :
        tools \in SeqUpTo(ToolDefinitions, 1),
        provider_options \in {UnparsableOptions, ParsableOptions, OutOfRangeOptions}}

\* create_request is applied to a message list and a configuration.
CreateRequest(messages, config) ==
    /\ entry.op = "none"
    /\ entry' = [op |-> "create_request", messages |-> messages, config |-> config,
                 outcome |-> create_request(messages, config)]
    /\ UNCHANGED <<stream, failure, finished, finish_reason, json_fragments, frames, results,
                   positions, delivered, other, retry>>

\* process_response is applied to a deserialized response.
ProcessResponse(response) ==
    /\ entry.op = "none"
    /\ entry' = [op |-> "process_response", response |-> response,
                 outcome |-> process_response(response)]
    /\ UNCHANGED <<stream, failure, finished, finish_reason, json_fragments, frames, results,
                   positions, delivered, other, retry>>

NextConversion ==
    \/ \E messages \in SeqUpTo(RoleMessages, MaxMessages), config \in Configs \cup OptionConfigs :
          CreateRequest(messages, config)
    \/ \E response \in Responses : ProcessResponse(response)

ConversionSpec == Init /\ [][NextConversion]_vars

(***************************************************************************)
(* Replies with more than one choice, streamed and not streamed.           *)
(***************************************************************************)
FrameLaterText ==
    DataFrame(<<JsonChoice(None, Some(TextA), None),
                JsonChoice(Some("length"), Some(TextB), None)>>, None)
FrameLaterTool ==
    DataFrame(<<JsonChoice(None, None,
                  Some(<<JsonToolCall(Some("c1"), Some("f"), Some(ArgsP), Some(0))>>)),
                JsonChoice(Some("tool_calls"), None,
                  Some(<<JsonToolCall(Some("c9"), Some("h"), Some(ArgsQ), Some(0)),
                         JsonToolCall(Some("c8"), Some("k"), Some(ArgsQ), Some(1))>>))>>, None)
FrameLaterUsage ==
    DataFrame(<<JsonChoice(None, None, None),
                JsonChoice(Some("stop"), Some(TextB), None)>>, Some(UsageStats))
FrameLaterUnknownReason ==
    DataFrame(<<JsonChoice(None, Some(TextA), None),
                JsonChoice(Some("function_call"), None, None)>>, None)

ChoiceFrames ==
    {FrameTwoChoices, FrameLaterText, FrameLaterTool, FrameLaterUsage,
     FrameLaterUnknownReason, FrameToolCont, FrameChoiceNoIndex}

ChoiceResponses == {response \in Responses : Len(response.choices) = 2 /\ response.usage = None}

NextChoice ==
    \/ \E raw \in ChoiceFrames : DecodeMessage(raw)
    \/ \E response \in ChoiceResponses : ProcessResponse(response)

ChoiceSpec == Init /\ [][NextChoice]_vars

(***************************************************************************)
(* The frames of two provider exchanges: a text reply streamed in two       *)
(* pieces, and a tool call whose arguments arrive over two frames.         *)
(***************************************************************************)
MaxScenario == 5

TextHel == <<"H", "e", "l">>
TextLo == <<"l", "o">>

FrameHel == DataFrame(<<JsonChoice(None, Some(TextHel), None)>>, None)
FrameLo == DataFrame(<<JsonChoice(None, Some(TextLo), None)>>, None)

\* A continuation fragment as the provider sends it: index and arguments,
\* no "id" key and no "name" key.
FrameToolBare ==
    DataFrame(<<JsonChoice(None, None,
                  Some(<<JsonToolCall(None, None, Some(ArgsQ), Some(0))>>))>>, None)

ScenarioFrames ==
    {FrameHel, FrameLo, FrameStop, FrameUsage, FrameDone, FrameToolFirst, FrameToolBare}

ScenarioInit == Init /\ stream # None

\* A frame of the exchange is passed to decode_message.
DecodeScenario(raw) ==
    /\ Len(frames) < MaxScenario
    /\ LET r == decode_message(raw, DecoderState) IN
         /\ finished' = r.st.finished
         /\ finish_reason' = r.st.finish_reason
         /\ json_fragments' = r.st.json_fragments
         /\ frames' = Append(frames, raw)
         /\ results' = Append(results, r.result)
         /\ positions' = Append(positions, r.positions)
    /\ UNCHANGED <<stream, failure>>
    /\ UNCHANGED rest

NextScenario == \E raw \in ScenarioFrames : DecodeScenario(raw)

ScenarioSpec == ScenarioInit /\ [][NextScenario]_vars

(***************************************************************************)
(* Chunks that carry usage statistics, with and without a first choice,     *)
(* text content and tool-call fragments.                                   *)
(***************************************************************************)
FrameUsageUnidentified == DataFrame(OneToolCall("", "", ArgsP, Some(1)), Some(UsageStats))
FrameUsageTool == DataFrame(OneToolCall("c1", "f", ArgsP, Some(0)), Some(UsageStats))
FrameUsageToolCont == DataFrame(OneToolCall("", "", ArgsQ, Some(0)), Some(UsageStats))
FrameUsageEmptyText == DataFrame(<<JsonChoice(None, Some(<<>>), None)>>, Some(UsageStats))
FrameUsageNoTools == DataFrame(<<JsonChoice(Some("stop"), None, Some(<<>>))>>, Some(UsageStats))
FrameUsageMixed ==
    DataFrame(<<JsonChoice(None, Some(TextA),
                  Some(<<JsonToolCall(Some("c2"), Some("g"), Some(ArgsQ), Some(1))>>))>>,
              Some(UsageStats))
FrameUsageOther ==
    Raw(DataPrefix, <<>>, Some(JsonChunk("chatcmpl-2", 205, <<>>, Some(JsonUsage(1, 2, 4)))))
FrameEventUsage ==
    Raw("event:", <<>>, Some(JsonChunk(ChunkId, 17, <<>>, Some(UsageStats))))

UsageFrames ==
    {FrameUsage, FrameUsageReason, FrameUsageContent, FrameUsageUnidentified, FrameUsageTool,
     FrameUsageToolCont, FrameUsageEmptyText, FrameUsageNoTools, FrameUsageMixed,
     FrameUsageOther, FrameEventUsage, FrameStop, FrameContentA, FrameToolFirst, FrameMixed,
     FrameNoModel, FrameToolCustomType}

NextUsage == \E raw \in UsageFrames : DecodeMessage(raw)

UsageSpec == Init /\ [][NextUsage]_vars

(***************************************************************************)
(* A stream that is interrupted: the deltas decoded so far are handed to   *)
(* retry_prompt together with the original messages.                       *)
(***************************************************************************)
ResumeFrames ==
    {FrameToolFirst, FrameToolCont, FrameToolTwo, FrameToolIdentify, FrameToolUnidentified,
     FrameContentA, FrameStop, FrameUsage, FrameDone, FrameBadJson, FrameToolNoType}

\* The StreamDelta values among the first n results, in emission order.
RECURSIVE ObservedDeltas(_)
ObservedDeltas(n) ==
    IF n = 0 THEN <<>>
    ELSE ObservedDeltas(n - 1)
         \o (IF results[n].event # None /\ results[n].event[1].type = "Delta"
             THEN <<results[n].event[1]>>
             ELSE <<>>)

\* A frame is decoded while the stream has not been resumed.
DecodeBeforeResume(raw) ==
    /\ retry.extended = None
    /\ DecodeMessage(raw)

\* retry_prompt is called with the original messages and the deltas
\* observed so far.
Resume(original_messages) ==
    /\ retry.extended = None
    /\ retry' = [original |-> original_messages,
                 partial |-> ObservedDeltas(Len(results)),
                 extended |-> Some(retry_prompt(original_messages,
                                                ObservedDeltas(Len(results))))]
    /\ UNCHANGED <<stream, failure, finished, finish_reason, json_fragments, frames, results,
                   positions, delivered, other, entry>>

NextResume ==
    \/ \E raw \in ResumeFrames : DecodeBeforeResume(raw)
    \/ \E original_messages \in SeqUpTo(OriginalMessages, 1) : Resume(original_messages)

ResumeSpec == Init /\ [][NextResume]_vars

(***************************************************************************)
(* A session from its construction on: entry records which constructor     *)
(* built it and with which argument.                                       *)
(***************************************************************************)
\* The errors OpenAIChatStream::failed is called with: a missing key, a
\* rejected request.
ConstructionErrors ==
    {Error("InternalError", <<"Missing config key: ", ENV_VAR_NAME>>, None)}
    \cup {Error("AuthenticationFailed", <<"401 Unauthorized">>, Some(<<"{}">>))}

\* The constructor calls: new(stream) and failed(error).
Constructions ==
    {[op |-> "new", error |-> None, built |-> OpenAIChatStream_new("EventSource")]}
    \cup {[op |-> "failed", error |-> Some(error), built |-> OpenAIChatStream_failed(error)] :
             error \in ConstructionErrors}

ConstructionInit ==
    /\ \E c \in Constructions :
          /\ stream = c.built.stream
          /\ failure = c.built.failure
          /\ finished = c.built.finished
          /\ finish_reason = c.built.finish_reason
          /\ json_fragments = c.built.json_fragments
          /\ entry = [op |-> c.op, error |-> c.error]
    /\ frames = <<>>
    /\ results = <<>>
    /\ positions = <<>>
    /\ delivered = <<>>
    /\ other = FreshSession
    /\ retry = NoRetry

ConstructionSpec == ConstructionInit /\ [][NextLifecycle]_vars

(***************************************************************************)
(* Reading the history: what was delivered and what was emitted.           *)
(***************************************************************************)
IsPrefix(a, b) == Len(a) <= Len(b) /\ SubSeq(b, 1, Len(a)) = a

\* The frame starts with the data prefix.
IsDataFrame(raw) == raw.head = DataPrefix

\* The frame's payload is exactly the end-of-stream sentinel.
IsSentinel(raw) == raw.head = DataPrefix /\ raw.text = <<DoneMarker>>

\* A data frame whose payload is a JSON document matching the chunk schema.
WellFormed(raw) == IsDataFrame(raw) /\ raw.json # None /\ ChunkDeserializes(raw.json[1])

\* A data frame that is neither the sentinel nor well-formed.
Malformed(raw) == IsDataFrame(raw) /\ ~IsSentinel(raw) /\ ~WellFormed(raw)

NoMalformed == \A k \in DOMAIN frames : ~Malformed(frames[k])

HasFirstChoice(raw) == WellFormed(raw) /\ Len(raw.json[1].choices) >= 1

\* The delta object of the first choice of a well-formed frame.
FirstDelta(raw) == raw.json[1].choices[1].delta

Emitted(k) == results[k].event # None
IsDeltaAt(k) == Emitted(k) /\ results[k].event[1].type = "Delta"
IsFinishAt(k) == Emitted(k) /\ results[k].event[1].type = "Finish"

EmittedCount == Cardinality({k \in DOMAIN results : Emitted(k)})
DataFrameCount == Cardinality({k \in DOMAIN frames : IsDataFrame(frames[k])})

\* The tool calls of the Delta emitted for frame k (empty when there is none).
EmittedToolCalls(k) ==
    IF IsDeltaAt(k) /\ results[k].event[1].tool_calls # None
    THEN results[k].event[1].tool_calls[1]
    ELSE <<>>

\* The positional index of a fragment as written in the frame.
IndexOf(tc) == IF tc.index = None THEN 0 ELSE tc.index[1]

\* The positional index of the p-th tool call emitted for frame k.
EmittedIndex(k, p) == IndexOf(FirstDelta(frames[k]).tool_calls[1][positions[k][p]])

\* The fragments a frame offers for merging: those of the first choice of a
\* well-formed frame whose first choice carries no text content.
MergedFragments(raw) ==
    IF HasFirstChoice(raw) /\ FirstDelta(raw).content = None /\ FirstDelta(raw).tool_calls # None
    THEN FirstDelta(raw).tool_calls[1]
    ELSE <<>>

\* Every fragment of every choice of a well-formed frame.
RECURSIVE ChoiceFragments(_, _)
ChoiceFragments(choices, c) ==
    IF c > Len(choices) THEN <<>>
    ELSE LET tcs == IF choices[c].delta.tool_calls = None THEN <<>>
                    ELSE choices[c].delta.tool_calls[1]
         IN [j \in 1..Len(tcs) |-> [choice |-> c, position |-> j, tc |-> tcs[j]]]
            \o ChoiceFragments(choices, c + 1)

AllFragments(raw) == IF WellFormed(raw) THEN ChoiceFragments(raw.json[1].choices, 1) ELSE <<>>

\* The merged fragments of frames 1..n in arrival order, each with its place.
RECURSIVE MergedHistory(_)
MergedHistory(n) ==
    IF n = 0 THEN <<>>
    ELSE MergedHistory(n - 1) \o
         [j \in 1..Len(MergedFragments(frames[n])) |->
             [frame |-> n, choice |-> 1, position |-> j, tc |-> MergedFragments(frames[n])[j]]]

\* Every fragment of frames 1..n in arrival order, each with its place.
RECURSIVE FullHistory(_)
FullHistory(n) ==
    IF n = 0 THEN <<>>
    ELSE FullHistory(n - 1) \o
         [j \in 1..Len(AllFragments(frames[n])) |->
             [frame |-> n, choice |-> AllFragments(frames[n])[j].choice,
              position |-> AllFragments(frames[n])[j].position,
              tc |-> AllFragments(frames[n])[j].tc]]

\* Entry e arrived no later than the fragment at position j of the first
\* choice of frame k.
NotAfter(e, k, j) == e.frame < k \/ (e.frame = k /\ e.choice = 1 /\ e.position <= j)

\* The argument text, in arrival order, of the entries of history h for
\* index i that arrived no later than fragment j of frame k.
RECURSIVE ArgumentsFor(_, _, _, _)
ArgumentsFor(h, i, k, j) ==
    IF h = <<>> THEN <<>>
    ELSE (IF IndexOf(Head(h).tc) = i /\ NotAfter(Head(h), k, j)
          THEN Head(h).tc.function.arguments[1] ELSE <<>>)
         \o ArgumentsFor(Tail(h), i, k, j)

\* The entries of history h for index i, in arrival order.
EntriesFor(h, i) == SelectSeq(h, LAMBDA e : IndexOf(e.tc) = i)

SuppliesIdentity(tc) == tc.id[1] # "" /\ tc.function.name[1] # ""

\* The text of a list of content parts.
RECURSIVE PartsText(_)
PartsText(parts) == IF parts = <<>> THEN <<>> ELSE Head(parts).text \o PartsText(Tail(parts))

\* The text of all Delta content parts emitted for frames 1..n.
RECURSIVE EmittedText(_)
EmittedText(n) ==
    IF n = 0 THEN <<>>
    ELSE EmittedText(n - 1) \o
         (IF IsDeltaAt(n) /\ results[n].event[1].content # None
          THEN PartsText(results[n].event[1].content[1]) ELSE <<>>)

\* The content fields of the first choices of the data frames 1..n.
RECURSIVE ReceivedText(_)
ReceivedText(n) ==
    IF n = 0 THEN <<>>
    ELSE ReceivedText(n - 1) \o
         (IF HasFirstChoice(frames[n]) /\ FirstDelta(frames[n]).content # None
          THEN FirstDelta(frames[n]).content[1] ELSE <<>>)

\* The finish reason carried by the first choice of a frame, if any.
FrameReason(raw) ==
    IF HasFirstChoice(raw) THEN raw.json[1].choices[1].finish_reason ELSE None

\* The finish reason of the most recent of frames 1..k that carried one.
RECURSIVE LastReason(_)
LastReason(k) ==
    IF k = 0 THEN None
    ELSE IF FrameReason(frames[k]) # None
         THEN Some(convert_finish_reason(FrameReason(frames[k])[1]))
         ELSE LastReason(k - 1)

\* The kinds of the events surfaced for frames 1..n, a decode failure being
\* surfaced as an Error event.
RECURSIVE EventKinds(_)
EventKinds(n) ==
    IF n = 0 THEN <<>>
    ELSE EventKinds(n - 1) \o
         (IF ~results[n].ok THEN <<"Error">>
          ELSE IF Emitted(n) THEN <<results[n].event[1].type>> ELSE <<>>)

(***************************************************************************)
(* Properties.                                                             *)
(***************************************************************************)

\* C1: when no data frame is malformed, every call succeeds with at most one
\* event, the number of emitted events never exceeds the number of data
\* frames delivered, and non-data frames and the sentinel emit nothing.
C1_EventsBoundedByDataFrames ==
    NoMalformed =>
        /\ \A k \in DOMAIN results : results[k].ok /\ Len(results[k].event) <= 1
        /\ EmittedCount <= DataFrameCount
        /\ \A k \in DOMAIN frames :
              (~IsDataFrame(frames[k]) \/ IsSentinel(frames[k])) => ~Emitted(k)

C1_Witness ==
    /\ NoMalformed
    /\ EmittedCount >= 1
    /\ EmittedCount < DataFrameCount
    /\ \E k \in DOMAIN frames : ~IsDataFrame(frames[k]) /\ frames[k].json # None

\* C2: when no data frame is malformed, finished is true exactly when a
\* sentinel frame was delivered, and the sentinel frame yields no event.
C2_FinishedIffSentinel ==
    NoMalformed =>
        /\ finished <=> \E k \in DOMAIN frames : IsSentinel(frames[k])
        /\ \A k \in DOMAIN frames : IsSentinel(frames[k]) => results[k] = Ok(None)

C2_Witness ==
    /\ NoMalformed
    /\ finished
    /\ Len(frames) = 3
    /\ IsDeltaAt(1)
    /\ IsFinishAt(2)
    /\ IsSentinel(frames[3])

\* C3: finished starts false on both construction paths and never goes back
\* from true to false, whatever decode_message or set_finished call follows.
C3_FinishedMonotonic ==
    /\ (finished = FALSE)
    /\ [][finished => finished']_vars

C3_Witness ==
    /\ finished
    /\ \E k \in DOMAIN frames : IsSentinel(frames[k]) /\ k < Len(frames)

\* C4: a session that has reached finished has surfaced zero or more Delta
\* events followed by exactly one terminal event (Finish or Error).
C4_ExactlyOneTerminal ==
    finished =>
        LET kinds == EventKinds(Len(frames)) IN
        /\ Len(kinds) >= 1
        /\ kinds[Len(kinds)] \in {"Finish", "Error"}
        /\ \A i \in 1..(Len(kinds) - 1) : kinds[i] = "Delta"

\* C5: for one positional index, the arguments emitted at a frame are a
\* prefix of the arguments emitted at any later frame.
C5_ArgumentsPrefixMonotonic ==
    \A k1 \in DOMAIN results, k2 \in DOMAIN results :
        k1 < k2 =>
            \A p1 \in DOMAIN EmittedToolCalls(k1), p2 \in DOMAIN EmittedToolCalls(k2) :
                EmittedIndex(k1, p1) = EmittedIndex(k2, p2) =>
                    IsPrefix(EmittedToolCalls(k1)[p1].arguments_json,
                             EmittedToolCalls(k2)[p2].arguments_json)

C5_Witness ==
    \E k1 \in DOMAIN results, k2 \in DOMAIN results :
        /\ k1 < k2
        /\ \E p1 \in DOMAIN EmittedToolCalls(k1), p2 \in DOMAIN EmittedToolCalls(k2) :
              /\ EmittedIndex(k1, p1) = EmittedIndex(k2, p2)
              /\ Len(EmittedToolCalls(k1)[p1].arguments_json)
                    < Len(EmittedToolCalls(k2)[p2].arguments_json)

\* C6 as stated: every emitted tool call carries the argument text of every
\* fragment for its index contained in any well-formed data frame so far.
C6_SnapshotOfEveryFragment ==
    \A k \in DOMAIN results :
        \A p \in DOMAIN EmittedToolCalls(k) :
            EmittedToolCalls(k)[p].arguments_json =
                ArgumentsFor(FullHistory(k), EmittedIndex(k, p), k, positions[k][p])

\* C6 amended: every emitted tool call carries, in arrival order, the
\* argument text of every fragment for its index, up to and including the
\* fragment that produced it, taken from the first choice of the well-formed
\* data frames whose first choice carries no text content.
C6_SnapshotOfMergedFragments ==
    \A k \in DOMAIN results :
        \A p \in DOMAIN EmittedToolCalls(k) :
            EmittedToolCalls(k)[p].arguments_json =
                ArgumentsFor(MergedHistory(k), EmittedIndex(k, p), k, positions[k][p])

C6_Witness ==
    \E k \in DOMAIN results :
        \E p \in DOMAIN EmittedToolCalls(k) :
            /\ Len(EmittedToolCalls(k)[p].arguments_json) >= 2
            /\ ArgumentsFor(FullHistory(k), EmittedIndex(k, p), k, positions[k][p])
                  # ArgumentsFor(MergedHistory(k), EmittedIndex(k, p), k, positions[k][p])

\* The merged entry is a later fragment of its index whose id or name differs
\* from those of the first merged fragment of that index.
RenamesIndex(h, n) ==
    LET first == EntriesFor(h, IndexOf(h[n].tc))[1] IN
    /\ first # h[n]
    /\ \/ h[n].tc.id # first.tc.id
       \/ h[n].tc.function.name # first.tc.function.name

\* C7: fragments are merged by positional index (absent index is 0): there
\* is one accumulator per index; every accumulator and every emitted tool
\* call carries the id and name of the first merged fragment of its index;
\* and the arguments of every merged fragment of an index, those of a later
\* fragment with a different id or name included, are appended in arrival
\* order to the accumulator of that index, whose text so far is what an
\* emitted tool call carries.
C7_FirstSeenIdentity ==
    LET h == MergedHistory(Len(frames)) IN
    /\ DOMAIN json_fragments = {IndexOf(h[n].tc) : n \in DOMAIN h}
    /\ \A i \in DOMAIN json_fragments :
          /\ json_fragments[i].id = EntriesFor(h, i)[1].tc.id[1]
          /\ json_fragments[i].name = EntriesFor(h, i)[1].tc.function.name[1]
          /\ json_fragments[i].json = ArgumentsFor(h, i, Len(frames) + 1, 0)
    /\ \A n \in DOMAIN h :
          RenamesIndex(h, n) =>
              /\ json_fragments[IndexOf(h[n].tc)].id # h[n].tc.id[1]
                 \/ json_fragments[IndexOf(h[n].tc)].name # h[n].tc.function.name[1]
              /\ json_fragments[IndexOf(h[n].tc)].json =
                    ArgumentsFor(h, IndexOf(h[n].tc), h[n].frame, h[n].position - 1)
                    \o h[n].tc.function.arguments[1]
                    \o SubSeq(json_fragments[IndexOf(h[n].tc)].json,
                              Len(ArgumentsFor(h, IndexOf(h[n].tc), h[n].frame, h[n].position)) + 1,
                              Len(json_fragments[IndexOf(h[n].tc)].json))
    /\ \A k \in DOMAIN results :
          \A p \in DOMAIN EmittedToolCalls(k) :
              /\ EmittedToolCalls(k)[p].id = EntriesFor(h, EmittedIndex(k, p))[1].tc.id[1]
              /\ EmittedToolCalls(k)[p].name =
                    EntriesFor(h, EmittedIndex(k, p))[1].tc.function.name[1]
              /\ EmittedToolCalls(k)[p].arguments_json =
                    ArgumentsFor(h, EmittedIndex(k, p), k, positions[k][p])

\* A fragment without index, with a non-empty id other than the first-seen
\* one and with argument text, was merged into the accumulator of index 0 and
\* emitted under the first-seen id with the text of both fragments.
C7_Witness ==
    \E k \in DOMAIN results :
        \E p \in DOMAIN EmittedToolCalls(k) :
            LET tc == FirstDelta(frames[k]).tool_calls[1][positions[k][p]] IN
            /\ tc.index = None
            /\ tc.id[1] # ""
            /\ tc.id[1] # EmittedToolCalls(k)[p].id
            /\ tc.function.arguments[1] # <<>>
            /\ Len(EmittedToolCalls(k)[p].arguments_json) >= 2
            /\ 0 \in DOMAIN json_fragments
            /\ json_fragments[0].id = EmittedToolCalls(k)[p].id
            /\ Len(json_fragments[0].json) >= Len(EmittedToolCalls(k)[p].arguments_json)

\* C8: no tool call is emitted for an index before a fragment has supplied
\* its id and name, and the first fragment that supplies them after
\* unidentified fragments makes the decoder emit a Delta whose tool call
\* carries that id and name with all argument text accumulated for the index.
C8_DeferredIdentification ==
    LET h == MergedHistory(Len(frames)) IN
    /\ \A k \in DOMAIN results :
          \A p \in DOMAIN EmittedToolCalls(k) :
              \E n \in DOMAIN h :
                  /\ IndexOf(h[n].tc) = EmittedIndex(k, p)
                  /\ NotAfter(h[n], k, positions[k][p])
                  /\ SuppliesIdentity(h[n].tc)
    /\ \A n \in DOMAIN h :
          (/\ SuppliesIdentity(h[n].tc)
           /\ \E m \in 1..(n - 1) : IndexOf(h[m].tc) = IndexOf(h[n].tc)
           /\ \A m \in 1..(n - 1) :
                 IndexOf(h[m].tc) = IndexOf(h[n].tc) => ~SuppliesIdentity(h[m].tc))
          => \E p \in DOMAIN EmittedToolCalls(h[n].frame) :
                EmittedToolCalls(h[n].frame)[p] =
                    ToolCall(h[n].tc.id[1], h[n].tc.function.name[1],
                             ArgumentsFor(h, IndexOf(h[n].tc), h[n].frame, h[n].position))

\* C9: every Finish carries the finish reason of the most recent frame, up
\* to and including its own, whose first choice carried one (none if there
\* was no such frame), and the recorded reason is never cleared.
C9_FinishReasonLastWriterWins ==
    /\ finish_reason = LastReason(Len(frames))
    /\ \A k \in DOMAIN results :
          IsFinishAt(k) => results[k].event[1].finish_reason = LastReason(k)

C9_Witness ==
    \E k \in DOMAIN results :
        /\ IsFinishAt(k)
        /\ FrameReason(frames[k]) = None
        /\ \E j1 \in 1..(k - 1), j2 \in 1..(k - 1) :
              /\ j1 < j2
              /\ FrameReason(frames[j1]) # None
              /\ FrameReason(frames[j2]) # None
              /\ FrameReason(frames[j1]) # FrameReason(frames[j2])
              /\ IsDeltaAt(j2)

\* C10: when no data frame is malformed, the text of the emitted Delta
\* content parts, in emission order, is the text of the content fields of
\* the first choices of the data frames, in arrival order.
C10_TextExactlyOnce ==
    NoMalformed => EmittedText(Len(frames)) = ReceivedText(Len(frames))

C10_Witness ==
    /\ NoMalformed
    /\ Len(EmittedText(Len(frames))) >= 2
    /\ \E k \in DOMAIN frames :
          /\ HasFirstChoice(frames[k])
          /\ FirstDelta(frames[k]).content # None
          /\ FirstDelta(frames[k]).tool_calls # None

\* The last element of a non-empty sequence.
Last(seq) == seq[Len(seq)]

\* This step is one call of decode_message.
DecodeStep == Len(frames') = Len(frames) + 1

DecoderUnchanged ==
    /\ finished' = finished
    /\ finish_reason' = finish_reason
    /\ json_fragments' = json_fragments

\* C11: every event is returned by the call for the frame it originates
\* from: a text Delta carries the content of its own frame, a tool-call Delta
\* is built from the fragments of its own frame in their order, and a Finish
\* carries the usage, id and timestamp of its own frame; a call never
\* rewrites what earlier calls returned.
C11_EventsInArrivalOrder ==
    /\ Len(results) = Len(frames)
    /\ \A k \in DOMAIN results :
          /\ (IsDeltaAt(k) /\ results[k].event[1].content # None) =>
                /\ HasFirstChoice(frames[k])
                /\ FirstDelta(frames[k]).content # None
                /\ results[k].event[1] =
                      Delta(Some(<<Text(FirstDelta(frames[k]).content[1])>>), None)
          /\ (IsDeltaAt(k) /\ results[k].event[1].tool_calls # None) =>
                /\ Len(positions[k]) = Len(EmittedToolCalls(k))
                /\ \A p \in DOMAIN positions[k] :
                      positions[k][p] \in DOMAIN MergedFragments(frames[k])
                /\ \A p \in DOMAIN positions[k], q \in DOMAIN positions[k] :
                      p < q => positions[k][p] < positions[k][q]
          /\ IsFinishAt(k) =>
                /\ WellFormed(frames[k])
                /\ frames[k].json[1].usage # None
                /\ results[k].event[1].usage = Some(convert_usage(frames[k].json[1].usage[1]))
                /\ results[k].event[1].provider_id = Some(frames[k].json[1].id)

C11_Witness ==
    /\ Len(frames) = 3
    /\ IsDeltaAt(1) /\ results[1].event[1].content # None
    /\ IsDeltaAt(2) /\ results[2].event[1].tool_calls # None
    /\ IsFinishAt(3)
    /\ finish_reason # None

\* C13: a call of decode_message that fails leaves finished, the recorded
\* finish reason and the fragment table exactly as they were.
C13_FailedFrameAppliesNothing ==
    [][(DecodeStep /\ ~Last(results').ok) => DecoderUnchanged]_vars

C13_Witness ==
    /\ Len(frames) = 3
    /\ ~results[3].ok
    /\ frames[3].json # None
    /\ FrameReason(frames[2]) # None
    /\ finish_reason = LastReason(2)
    /\ DOMAIN json_fragments # {}

\* C14: a frame that does not start with the data prefix returns Ok(None)
\* and leaves finished, the finish reason and the fragment table unchanged,
\* whatever follows its first bytes.
C14_NonDataFrameIgnored ==
    [][(DecodeStep /\ ~IsDataFrame(Last(frames'))) =>
           (Last(results') = Ok(None) /\ DecoderUnchanged)]_vars

C14_Witness ==
    /\ Len(frames) = 3
    /\ ~IsDataFrame(frames[3])
    /\ frames[3].json # None
    /\ results[3] = Ok(None)
    /\ finish_reason # None
    /\ DOMAIN json_fragments # {}

\* The events of all delivered batches, in delivery order.
RECURSIVE Flatten(_)
Flatten(batches) == IF batches = <<>> THEN <<>> ELSE Head(batches) \o Flatten(Tail(batches))

DeliveredEvents == Flatten(delivered)

ErrorCount == Cardinality({n \in DOMAIN DeliveredEvents : DeliveredEvents[n].type = "Error"})

\* What a malformed frame does to the session: the decoder reports a decode
\* failure, the session is finished, and the one Error delivered is the last
\* delivered event.
FatalAt(k) ==
    /\ ~results[k].ok
    /\ finished
    /\ ErrorCount = 1
    /\ Last(DeliveredEvents).type = "Error"
    /\ Last(DeliveredEvents).error.message = results[k].err

\* C12 as stated: every malformed data frame is fatal to the stream.
C12_MalformedFrameIsFatal ==
    \A k \in DOMAIN frames : Malformed(frames[k]) => FatalAt(k)

\* C12 amended: every malformed data frame that does not begin with the
\* end-of-stream sentinel is fatal to the stream, and whatever was delivered
\* before stays delivered.
C12_MalformedNonSentinelFrameIsFatal ==
    /\ [](\A k \in DOMAIN frames :
             (Malformed(frames[k]) /\ ~StartsWithDone(frames[k])) => FatalAt(k))
    /\ [][IsPrefix(delivered, delivered')]_vars

C12_Witness ==
    /\ Len(frames) = 3
    /\ Malformed(frames[3])
    /\ ~results[3].ok
    /\ finished
    /\ Len(DeliveredEvents) = 3
    /\ DeliveredEvents[1].type = "Delta"
    /\ DeliveredEvents[2].type = "Delta"
    /\ DeliveredEvents[3].type = "Error"
    /\ Len(delivered) = 4
    /\ delivered[4] = <<>>

\* C15 as stated: once the sentinel has been processed, no frame passed to
\* the decoder changes the finish reason or the fragment table or emits an
\* event.
C15_FrozenOnceFinished ==
    [][(finished /\ DecodeStep) =>
           (/\ finish_reason' = finish_reason
            /\ json_fragments' = json_fragments
            /\ ~Last(results').ok \/ Last(results').event = None)]_vars

\* C15 amended: finished stays true once set, but decode_message does not
\* consult it: a frame passed to a finished decoder returns the same result
\* and has the same effect on the finish reason and the fragment table as
\* the same frame passed to an unfinished decoder in the same state.
C15_FinishedFlagNotConsulted ==
    [][DecodeStep =>
           LET r == decode_message(Last(frames'), [DecoderState EXCEPT !.finished = FALSE]) IN
           /\ Last(results') = r.result
           /\ finish_reason' = r.st.finish_reason
           /\ json_fragments' = r.st.json_fragments
           /\ finished => finished']_vars

C15_Witness ==
    /\ Len(frames) = 3
    /\ IsSentinel(frames[1])
    /\ finished
    /\ IsDeltaAt(2) /\ DOMAIN json_fragments # {}
    /\ IsFinishAt(3) /\ FrameReason(frames[3]) # None

\* A session run alone on the frames fs: its final decoder state and the
\* results of its calls.
RECURSIVE Alone(_)
Alone(fs) ==
    IF fs = <<>>
    THEN [st |-> [finished |-> FALSE, finish_reason |-> None,
                  json_fragments |-> EmptyFragments],
          results |-> <<>>]
    ELSE LET before == Alone(SubSeq(fs, 1, Len(fs) - 1))
             r == decode_message(Last(fs), before.st)
         IN [st |-> r.st, results |-> Append(before.results, r.result)]

\* C16: under any interleaving, each session returns the results and ends in
\* the decoder state it would have had when run alone on its own frames, and
\* a frame decoded by one session leaves the other session untouched.
C16_SessionsIsolated ==
    /\ [](/\ Alone(frames).st = DecoderState
          /\ Alone(frames).results = results
          /\ Alone(other.frames).st = OtherState
          /\ Alone(other.frames).results = other.results)
    /\ [][/\ frames' # frames => other' = other
          /\ other' # other =>
                (DecoderUnchanged /\ frames' = frames /\ results' = results)]_vars

C16_Witness ==
    /\ Len(frames) = 3
    /\ Len(other.frames) = 3
    /\ finished /\ ~other.finished
    /\ DOMAIN json_fragments # {} /\ DOMAIN other.json_fragments # {}
    /\ json_fragments # other.json_fragments
    /\ finish_reason # other.finish_reason
    /\ \E k \in DOMAIN other.results : other.results[k].event # None

\* The parts one observed delta contributes to the partial response: its
\* content parts, then one marker per tool call.
MarkerText(tc) ==
    <<"<tool-call id=\"", tc.id, "\" name=\"", tc.name, "\" arguments=\"">>
        \o tc.arguments_json \o <<"\"/>">>

ContentPartsOf(delta) == IF delta.content = None THEN <<>> ELSE delta.content[1]

MarkerPartsOf(delta) ==
    IF delta.tool_calls = None THEN <<>>
    ELSE [i \in 1..Len(delta.tool_calls[1]) |-> [text |-> MarkerText(delta.tool_calls[1][i])]]

RECURSIVE ObservedParts(_)
ObservedParts(deltas) ==
    IF deltas = <<>> THEN <<>>
    ELSE ContentPartsOf(Head(deltas)) \o MarkerPartsOf(Head(deltas)) \o ObservedParts(Tail(deltas))

\* C17: for n original messages retry_prompt returns n+3 messages: the
\* System instruction, the User question header, the n originals unchanged
\* and in order, and a final User message that starts with the partial
\* response header.
C17_RetryPromptShape ==
    retry.extended # None =>
        LET e == retry.extended[1]
            n == Len(retry.original)
        IN /\ Len(e) = n + 3
           /\ e[1] = [role |-> "System", name |-> None,
                      content |-> <<[text |-> SystemInstruction]>>]
           /\ e[2] = [role |-> "User", name |-> None,
                      content |-> <<[text |-> QuestionHeader]>>]
           /\ \A i \in 1..n : e[i + 2] = retry.original[i]
           /\ e[n + 3].role = "User"
           /\ e[n + 3].name = None
           /\ Len(e[n + 3].content) >= 1
           /\ e[n + 3].content[1] = [text |-> PartialHeader]

C17_Witness ==
    /\ retry.extended # None
    /\ Len(retry.original) = 2
    /\ retry.original[1] # retry.original[2]
    /\ retry.original[1].role = "User"
    /\ Len(retry.partial) >= 1

\* C18: the final message holds the header followed by the parts of every
\* observed delta, deltas in observation order and, within a delta, content
\* parts before tool-call markers; with no deltas it holds only the header.
C18_PartialResponseFlattened ==
    retry.extended # None =>
        /\ Last(retry.extended[1]).content =
              <<[text |-> PartialHeader]>> \o ObservedParts(retry.partial)
        /\ retry.partial = <<>> => Len(Last(retry.extended[1]).content) = 1

C18_Witness ==
    /\ retry.extended # None
    /\ Len(retry.partial) = 2
    /\ retry.partial[1].content # None /\ retry.partial[1].tool_calls # None
    /\ retry.partial[2].tool_calls # None /\ Len(retry.partial[2].tool_calls[1]) = 2
    /\ Len(Last(retry.extended[1]).content) = 5

\* The call was made without the API key in the environment.
KeyMissing == entry.op # "none" /\ "OPENAI_API_KEY" \notin DOMAIN entry.env

\* The positions of the tool definitions whose schema is not JSON.
BadTools ==
    IF entry.op = "none" THEN {}
    ELSE {i \in 1..Len(entry.config[1].tools) :
             entry.config[1].tools[i].parameters_schema.json = None}

\* The setup error the call has to report.
IsSetupError(error) ==
    /\ error.code = "InternalError"
    /\ IF KeyMissing THEN error.message[1] = "Missing config key: "
       ELSE /\ error.message[1] = "Failed to parse tool parameters for "
            /\ \E i \in BadTools :
                  /\ error.message[2] = entry.config[1].tools[i].name
                  /\ \A j \in BadTools : i <= j

\* C20: when the API key is missing or create_request fails, send and
\* continue_ return ChatEvent::Error, stream returns a failed session that
\* carries the error, and no HTTP request has been issued.
C20_SetupErrorsMakeNoCall ==
    (KeyMissing \/ BadTools # {}) =>
        /\ entry.http = <<>>
        /\ entry.op \in {"send", "continue"} =>
              /\ entry.outcome # None
              /\ entry.outcome[1].type = "Error"
              /\ IsSetupError(entry.outcome[1].error)
        /\ entry.op = "stream" =>
              /\ stream = None
              /\ failure # None
              /\ IsSetupError(failure[1])

C20_Witness ==
    /\ entry.op = "stream"
    /\ ~KeyMissing
    /\ Len(entry.config[1].tools) = 2
    /\ BadTools = {2}
    /\ entry.reply[1].status.code = 200 /\ entry.reply[1].event_stream
    /\ entry.http = <<>>
    /\ stream = None
    /\ failure # None

\* The call was create_request / process_response.
Created == entry.op = "create_request"
Processed == entry.op = "process_response"

\* The positions of the tool definitions of the call whose schema is not JSON.
InvalidTools ==
    {i \in 1..Len(entry.config.tools) : entry.config.tools[i].parameters_schema.json = None}

\* The text mentions the name.
Mentions(message, name) == \E k \in 1..Len(message) : message[k] = name

\* C21 as stated: every tool definition whose schema is not valid JSON makes
\* create_request return an internal error whose message carries the name of
\* that tool, and no request.
C21_ErrorNamesEveryInvalidTool ==
    Created =>
        \A i \in InvalidTools :
            /\ ~entry.outcome.ok
            /\ entry.outcome.value = None
            /\ entry.outcome.error[1].code = "InternalError"
            /\ Mentions(entry.outcome.error[1].message, entry.config.tools[i].name)

\* C21 (amended): if some tool definition has a schema that is not valid
\* JSON, create_request returns an error value and no request, whatever the
\* other tools and the messages are; the error has the internal-error code
\* and its message carries the name of the first such tool in list order.
C21_ErrorNamesFirstInvalidTool ==
    (Created /\ InvalidTools # {}) =>
        /\ ~entry.outcome.ok
        /\ entry.outcome.value = None
        /\ entry.outcome.error[1].code = "InternalError"
        /\ \E i \in InvalidTools :
              /\ \A j \in InvalidTools : i <= j
              /\ Mentions(entry.outcome.error[1].message, entry.config.tools[i].name)

C21_Witness ==
    /\ Created
    /\ Len(entry.messages) = 2
    /\ Len(entry.config.tools) = 2
    /\ InvalidTools = {2}
    /\ ~entry.outcome.ok
    /\ Mentions(entry.outcome.error[1].message, entry.config.tools[2].name)

\* C22: a response with zero choices is mapped to ChatEvent::Error with the
\* internal-error code and no provider payload, whatever its id and usage.
C22_NoChoicesIsInternalError ==
    (Processed /\ Len(entry.response.choices) = 0) =>
        /\ entry.outcome.type = "Error"
        /\ entry.outcome.error.code = "InternalError"
        /\ entry.outcome.error.provider_error_json = None

C22_Witness ==
    /\ Processed
    /\ Len(entry.response.choices) = 0
    /\ entry.response.usage # None
    /\ entry.response.id = "chatcmpl-2"
    /\ entry.outcome.type = "Error"

\* The first choice of the processed response, its text and its tool calls.
Reply1 == entry.response.choices[1]
ReplyHasText == Reply1.message.content # None
ReplyCalls == IF Reply1.message.tool_calls = None THEN <<>> ELSE Reply1.message.tool_calls[1]
ReplyToolCalls ==
    [i \in 1..Len(ReplyCalls) |->
        [id |-> ReplyCalls[i].id, name |-> ReplyCalls[i].function.name,
         arguments_json |-> ReplyCalls[i].function.arguments]]

\* The finish reason variant of a provider name.
ReasonOf(name) ==
    CASE name = "stop" -> "Stop" [] name = "length" -> "Length"
      [] name = "tool_calls" -> "ToolCalls" [] name = "content_filter" -> "ContentFilter"

\* C23: with at least one choice, the result is ToolRequest exactly when the
\* first choice has a tool call and no text, and it then lists the first
\* choice's tool calls in order; otherwise it is Message with the text, if
\* any, all the tool calls, and the finish reason and usage that are there.
C23_ToolRequestIffToolsWithoutText ==
    (Processed /\ Len(entry.response.choices) >= 1) =>
        /\ entry.outcome.type = "ToolRequest" <=> (Len(ReplyCalls) >= 1 /\ ~ReplyHasText)
        /\ entry.outcome.type = "ToolRequest" => entry.outcome.tool_calls = ReplyToolCalls
        /\ entry.outcome.type # "ToolRequest" =>
              /\ entry.outcome.type = "Message"
              /\ entry.outcome.response.content =
                    (IF ReplyHasText THEN <<[text |-> Reply1.message.content[1]]>> ELSE <<>>)
              /\ entry.outcome.response.tool_calls = ReplyToolCalls
              /\ entry.outcome.response.metadata.finish_reason =
                    (IF Reply1.finish_reason = None THEN <<>>
                     ELSE <<ReasonOf(Reply1.finish_reason[1])>>)
              /\ entry.outcome.response.metadata.usage =
                    (IF entry.response.usage = None THEN <<>>
                     ELSE <<[input_tokens |-> <<entry.response.usage[1].prompt_tokens>>,
                             output_tokens |-> <<entry.response.usage[1].completion_tokens>>,
                             total_tokens |-> <<entry.response.usage[1].total_tokens>>]>>)

C23_Witness ==
    /\ Processed
    /\ Len(entry.response.choices) >= 1
    /\ Len(ReplyCalls) = 2
    /\ ~ReplyHasText
    /\ entry.outcome.type = "ToolRequest"
    /\ Len(entry.outcome.tool_calls) = 2

\* The provider's role tag of a role.
RoleTag(role) ==
    CASE role = "System" -> "system" [] role = "User" -> "user"
      [] role = "Assistant" -> "assistant" [] role = "Tool" -> "tool"

\* The content list of a provider message (optional on assistant messages).
ContentList(m) == IF m.role = "assistant" THEN m.content[1] ELSE m.content

\* Known data URLs: the bytes of an inline image, its media type and the URL
\* of RFC 4648 for them.
DataUrls ==
    {<<<<1, 2, 3>>, "image/png", "data:image/png;base64,AQID">>,
     <<<<255, 216, 255>>, "image/jpeg", "data:image/jpeg;base64,/9j/">>,
     <<<<>>, "image/jpeg", "data:image/jpeg;base64,">>,
     <<<<102>>, "image/gif", "data:image/gif;base64,Zg==">>,
     <<<<102, 111>>, "image/gif", "data:image/gif;base64,Zm8=">>,
     <<<<102, 111, 111, 98>>, "image/gif", "data:image/gif;base64,Zm9vYg==">>}

\* The provider part carries the input part: the same text or the same image.
CarriesPart(out, part) ==
    CASE "text" \in DOMAIN part -> out.type = "text" /\ out.text = part.text
      [] "image_url" \in DOMAIN part ->
           /\ out.type = "image_url"
           /\ out.image_url.url = part.image_url.url
           /\ out.image_url.detail = part.image_url.detail
      [] "inline" \in DOMAIN part ->
           /\ out.type = "image_url"
           /\ <<part.inline.data, part.inline.mime_type, out.image_url.url>> \in DataUrls
           /\ out.image_url.detail = part.inline.detail

\* C30: the request has one message per input message, at the same
\* position, with the same role, the same name and the same content parts.
C30_RoleMappingTotalAndOrdered ==
    (Created /\ InvalidTools = {}) =>
        /\ entry.outcome.ok
        /\ LET out == entry.outcome.value[1].messages
               in == entry.messages
           IN /\ Len(out) = Len(in)
              /\ \A i \in 1..Len(in) :
                    /\ out[i].role = RoleTag(in[i].role)
                    /\ out[i].name = in[i].name
                    /\ Len(ContentList(out[i])) = Len(in[i].content)
                    /\ \A k \in 1..Len(in[i].content) :
                          CarriesPart(ContentList(out[i])[k], in[i].content[k])

C30_Witness ==
    /\ Created
    /\ entry.outcome.ok
    /\ Len(entry.messages) = 2
    /\ entry.messages[1].role = "Tool"
    /\ entry.messages[2].role = "User"
    /\ entry.outcome.value[1].messages[1].role = "tool"
    /\ Len(entry.outcome.value[1].messages[2].content) = 2

\* The frame, and the response, with every choice after the first removed.
FirstOnly(choices) == IF Len(choices) = 0 THEN choices ELSE <<choices[1]>>

FrameFirstOnly(raw) ==
    IF raw.json = None THEN raw
    ELSE [head |-> raw.head, text |-> raw.text,
          json |-> <<[raw.json[1] EXCEPT !.choices = FirstOnly(@)]>>]

ResponseFirstOnly(response) ==
    [id |-> response.id, created |-> response.created,
     choices |-> FirstOnly(response.choices), usage |-> response.usage]

\* The result of mapping a response depends on its first choice only.
MapperUsesFirstChoice ==
    Processed => entry.outcome = process_response(ResponseFirstOnly(entry.response))

\* The call just made returned, and left the decoder in, what the same call
\* on the frame without its later choices would have.
DecodedAsFirstOnly ==
    LET r == decode_message(FrameFirstOnly(Last(frames')), DecoderState) IN
    /\ Last(results') = r.result
    /\ finished' = r.st.finished
    /\ finish_reason' = r.st.finish_reason
    /\ json_fragments' = r.st.json_fragments

\* C24 as stated: no choice after the first ever influences the event that
\* is emitted, the recorded finish reason or the fragment table.
C24_LaterChoicesNeverInfluence ==
    /\ []MapperUsesFirstChoice
    /\ [][DecodeStep => DecodedAsFirstOnly]_vars

\* C24 (amended): in a response or chunk that deserializes, no choice after
\* the first influences the event that is emitted, the recorded finish reason
\* or the fragment table; a later choice that does not match the schema makes
\* the whole frame a decode failure.
C24_LaterChoicesIgnoredWhenWellFormed ==
    /\ []MapperUsesFirstChoice
    /\ [][(DecodeStep /\ WellFormed(Last(frames'))) => DecodedAsFirstOnly]_vars

C24_Witness ==
    /\ Len(frames) = 3
    /\ frames[1] = FrameLaterTool /\ DOMAIN json_fragments = {0}
    /\ json_fragments[0].id = "c1"
    /\ frames[2] = FrameLaterText /\ IsDeltaAt(2)
    /\ frames[3] = FrameLaterUsage /\ IsFinishAt(3)
    /\ finish_reason = None
    /\ Processed
    /\ entry.outcome.type = "ToolRequest"

\* The transport has delivered the end-of-stream sentinel, or the stream has
\* failed: it was constructed failed, or a frame was a decode failure.
StreamEnded ==
    \/ \E k \in DOMAIN frames : IsSentinel(frames[k])
    \/ failure # None
    \/ \E k \in DOMAIN results : ~results[k].ok

EmptyBatchReceived == \E i \in DOMAIN delivered : delivered[i] = <<>>

\* C25: once the sentinel has been delivered or the stream has failed, the
\* consumer that keeps calling get-next receives an empty batch, and every
\* batch returned by a call made on a finished session is empty.
C25_EmptyBatchEndsTheLoop ==
    /\ StreamEnded ~> EmptyBatchReceived
    /\ [][(finished /\ delivered' # delivered) => Last(delivered') = <<>>]_vars

C25_Witness ==
    /\ Len(frames) = 3
    /\ IsDeltaAt(1) /\ IsDeltaAt(2)
    /\ IsSentinel(frames[3])
    /\ finished
    /\ Len(delivered) = 4
    /\ delivered[3] = <<>> /\ delivered[4] = <<>>

\* The network refused the request, or answered with a non-success status.
TransportFailed == entry.reply[1].error # None
BadStatus == entry.reply[1].error = None /\ ~(entry.reply[1].status.code \in 200..299)

\* The error the call surfaced: the ChatEvent::Error of send and continue_,
\* the failure of the session stream returned; None if there is none.
SurfacedError ==
    IF entry.op = "stream"
    THEN (IF stream = None THEN failure ELSE <<>>)
    ELSE (IF entry.outcome # <<>> /\ entry.outcome[1].type = "Error"
          THEN <<entry.outcome[1].error>> ELSE <<>>)

\* C26: a call issues at most one HTTP request; when the request fails in
\* transport or is answered with a non-success status, exactly one request
\* was made and the call returns an error result, whose code is the one
\* derived from the status when there is a status.
C26_AtMostOneRequest ==
    entry.op # "none" =>
        /\ Len(entry.http) <= 1
        /\ (~KeyMissing /\ BadTools = {} /\ (TransportFailed \/ BadStatus)) =>
              /\ Len(entry.http) = 1
              /\ SurfacedError # <<>>
              /\ BadStatus =>
                    SurfacedError[1].code = error_code_from_status(entry.reply[1].status)

C26_Witness ==
    /\ entry.op = "continue"
    /\ ~KeyMissing /\ BadTools = {}
    /\ BadStatus
    /\ Len(entry.http) = 1
    /\ entry.outcome[1].type = "Error"
    /\ entry.outcome[1].error.code = "AuthenticationFailed"

\* The call for frame k returned no event and no error.
IsSilentAt(k) == results[k].ok /\ results[k].event = <<>>

\* The call for frame k returned a Delta holding exactly this text.
IsTextDeltaAt(k, text) ==
    /\ results[k].ok
    /\ results[k].event # <<>>
    /\ results[k].event[1].type = "Delta"
    /\ results[k].event[1].content = <<<<[text |-> text]>>>>
    /\ results[k].event[1].tool_calls = <<>>

\* The call for frame k returned a Delta holding exactly this tool call.
IsToolDeltaAt(k, id, name, arguments) ==
    /\ results[k].ok
    /\ results[k].event # <<>>
    /\ results[k].event[1].type = "Delta"
    /\ results[k].event[1].content = <<>>
    /\ results[k].event[1].tool_calls =
          <<<<[id |-> id, name |-> name, arguments_json |-> arguments]>>>>

\* C27: the frames Hel, lo, finish reason stop, usage, sentinel give
\* Delta(Hel), Delta(lo), nothing, Finish with reason Stop and the usage
\* figures, nothing, and leave the session finished.
C27_TextReplyScenario ==
    frames = <<FrameHel, FrameLo, FrameStop, FrameUsage, FrameDone>> =>
        /\ IsTextDeltaAt(1, <<"H", "e", "l">>)
        /\ IsTextDeltaAt(2, <<"l", "o">>)
        /\ IsSilentAt(3)
        /\ results[4].ok
        /\ results[4].event # <<>>
        /\ results[4].event[1].type = "Finish"
        /\ results[4].event[1].finish_reason = <<"Stop">>
        /\ results[4].event[1].usage =
              <<[input_tokens |-> <<3>>, output_tokens |-> <<5>>, total_tokens |-> <<8>>]>>
        /\ IsSilentAt(5)
        /\ finished

C27_Witness ==
    /\ frames = <<FrameHel, FrameLo, FrameStop, FrameUsage, FrameDone>>
    /\ Len(results) = 5
    /\ finished
    /\ finish_reason = <<"Stop">>

\* C28: after frame A with the fragment {index 0, id c1, name f, arguments
\* P} and frame B with the fragment {index 0, arguments Q} and no id and no
\* name, the decoder has emitted (c1, f, P) and then (c1, f, PQ), and frame B
\* was not a decode failure.
C28_ContinuationWithoutIdentity ==
    frames = <<FrameToolFirst, FrameToolBare>> =>
        /\ IsToolDeltaAt(1, "c1", "f", ArgsP)
        /\ results[2].ok
        /\ IsToolDeltaAt(2, "c1", "f", ArgsP \o ArgsQ)

\* The messages of the request continue_ sent, its n original messages and
\* its k (tool call, tool result) pairs.
Sent == entry.http[1].json.messages
Originals == entry.messages
Pairs == entry.tool_results

\* The text a tool result is reported with.
ResultText(tool_result) ==
    IF tool_result.type = "Success" THEN tool_result.result_json
    ELSE tool_result.error_message

\* C29: the request of continue_ holds the converted original messages in
\* order and then, for each pair in order, an Assistant message with exactly
\* that tool call and a Tool message with the call's id and the result JSON
\* or the error message: n + 2k messages.
C29_ContinueAppendsToolExchange ==
    (entry.op = "continue" /\ entry.http # <<>>) =>
        LET n == Len(Originals)
            k == Len(Pairs)
        IN /\ Len(Sent) = n + 2 * k
           /\ \A i \in 1..n :
                 /\ Sent[i].role = RoleTag(Originals[i].role)
                 /\ Sent[i].name = Originals[i].name
                 /\ Len(ContentList(Sent[i])) = Len(Originals[i].content)
                 /\ \A p \in 1..Len(Originals[i].content) :
                       CarriesPart(ContentList(Sent[i])[p], Originals[i].content[p])
           /\ \A j \in 1..k :
                 LET call == Pairs[j][1]
                     asked == Sent[n + 2 * j - 1]
                     answered == Sent[n + 2 * j]
                 IN /\ asked.role = "assistant"
                    /\ asked.content = <<>>
                    /\ asked.tool_calls # <<>>
                    /\ Len(asked.tool_calls[1]) = 1
                    /\ asked.tool_calls[1][1].id = call.id
                    /\ asked.tool_calls[1][1].function.name = call.name
                    /\ asked.tool_calls[1][1].function.arguments = call.arguments_json
                    /\ answered.role = "tool"
                    /\ answered.tool_call_id = call.id
                    /\ answered.content = <<[type |-> "text", text |-> ResultText(Pairs[j][2])]>>

C29_Witness ==
    /\ entry.op = "continue"
    /\ Len(entry.http) = 1
    /\ Len(Originals) = 2
    /\ Len(Pairs) = 2
    /\ Pairs[1][2].type = "Success" /\ Pairs[2][2].type = "Error"
    /\ Len(Sent) = 6
    /\ Sent[6].tool_call_id = "c2"

\* The positions of the Tool-role messages given to create_request.
ToolRoleMessages == {i \in 1..Len(entry.messages) : entry.messages[i].role = "Tool"}

\* C31: a Tool-role message in the message list given to create_request is
\* flagged as misuse: the call returns an error, and no request is built
\* that carries the message with the placeholder correlation id "unknown".
C31_ToolRoleFlaggedAsMisuse ==
    (Created /\ ToolRoleMessages # {} /\ InvalidTools = {}) =>
        /\ ~entry.outcome.ok
        /\ entry.outcome.value = None

\* The frame is a data frame whose chunk carries usage statistics.
CarriesUsage(raw) == WellFormed(raw) /\ raw.json[1].usage # None

\* The first choice of the frame, if any, has text content.
HasTextContent(raw) == HasFirstChoice(raw) /\ FirstDelta(raw).content # None

\* The Finish emitted for frame k carries the chunk's id, its created
\* timestamp in decimal, and the usage figures prompt -> input,
\* completion -> output, total -> total.
FinishCarriesChunk(k) ==
    LET event == results[k].event[1]
        chunk == frames[k].json[1]
    IN /\ event.provider_id = Some(chunk.id)
       /\ event.timestamp # None
       /\ event.timestamp[1] # <<>>
       /\ \A i \in 1..Len(event.timestamp[1]) : event.timestamp[1][i] \in Digits
       /\ StripZeros(event.timestamp[1]) = event.timestamp[1]
       /\ DecimalValue(event.timestamp[1]) = chunk.created
       /\ event.usage # None
       /\ event.usage[1].input_tokens = Some(chunk.usage[1].prompt_tokens)
       /\ event.usage[1].output_tokens = Some(chunk.usage[1].completion_tokens)
       /\ event.usage[1].total_tokens = Some(chunk.usage[1].total_tokens)

\* C32: a frame emits Finish if and only if its chunk carries usage
\* statistics and the frame emitted no Delta, a Delta being emitted exactly
\* when the first choice has text content or produced a non-empty tool-call
\* list; so a usage chunk without choices emits Finish and a usage chunk
\* with text content never does.  The Finish carries the chunk's id, its
\* created timestamp and the mapped usage figures.
C32_FinishIffUsageWithoutDelta ==
    \A k \in DOMAIN frames :
        /\ IsFinishAt(k) <=> (CarriesUsage(frames[k]) /\ ~IsDeltaAt(k))
        /\ IsDeltaAt(k) <=>
              /\ HasFirstChoice(frames[k])
              /\ HasTextContent(frames[k]) \/ EmittedToolCalls(k) # <<>>
        /\ (CarriesUsage(frames[k]) /\ ~HasFirstChoice(frames[k])) => IsFinishAt(k)
        /\ (CarriesUsage(frames[k]) /\ HasTextContent(frames[k])) => ~IsFinishAt(k)
        /\ IsFinishAt(k) => FinishCarriesChunk(k)

C32_Witness ==
    /\ frames = <<FrameUsageUnidentified, FrameUsageContent, FrameUsageOther>>
    /\ IsFinishAt(1)
    /\ IsDeltaAt(2)
    /\ IsFinishAt(3)
    /\ results[3].event[1].timestamp = Some(<<"2", "0", "5">>)
    /\ results[3].event[1].usage[1].input_tokens = Some(1)

\* The delta of the frame's first choice carries text content and tool-call
\* fragments.
IsMixed(raw) ==
    /\ HasFirstChoice(raw)
    /\ FirstDelta(raw).content # None
    /\ FirstDelta(raw).tool_calls # None
    /\ FirstDelta(raw).tool_calls[1] # <<>>

\* The ids offered for merging by the frames up to frame k.
OfferedIds(k) ==
    UNION {{MergedFragments(frames[j])[p].id[1] : p \in 1..Len(MergedFragments(frames[j]))} :
              j \in 1..k}

\* Every emitted tool call has an id that a frame without text content
\* offered, at that frame or before it.
EmittedOnlyFromMerged ==
    \A k \in DOMAIN frames :
        \A p \in 1..Len(EmittedToolCalls(k)) : EmittedToolCalls(k)[p].id \in OfferedIds(k)

\* The call for a mixed frame returns one Delta holding only the frame's
\* text and leaves the fragment table as it was.
MixedFrameStep ==
    (DecodeStep /\ IsMixed(Last(frames'))) =>
        /\ Last(results') =
              Ok(Some(Delta(Some(<<Text(FirstDelta(Last(frames')).content[1])>>), None)))
        /\ json_fragments' = json_fragments

\* C33: when a frame's delta carries both text content and tool-call
\* fragments, the decoder emits exactly one Delta containing only the text
\* (tool_calls none) and the frame leaves the fragment table unchanged: its
\* fragments are neither accumulated nor emitted later.
C33_MixedFrameSurfacesOnlyText ==
    []EmittedOnlyFromMerged /\ [][MixedFrameStep]_vars

C33_Witness ==
    /\ frames = <<FrameUsageMixed, FrameMixed, FrameUsageToolCont>>
    /\ results[1] = Ok(Some(Delta(Some(<<Text(TextA)>>), None)))
    /\ results[2] = Ok(Some(Delta(Some(<<Text(TextA)>>), None)))
    /\ IsFinishAt(3)
    /\ DOMAIN json_fragments = {0}
    /\ json_fragments[0] = JsonFragment("", "", ArgsQ)

\* The provider options of the call as the map create_request reads.
GivenOptions == OptionsMap(entry.config.provider_options)

\* The numeric option is given and its value does not parse.
UnparsableF32(key) == key \in DOMAIN GivenOptions /\ ParseF32(GivenOptions[key]) = None
UnparsableUnsigned(key, max) ==
    key \in DOMAIN GivenOptions /\ ParseUnsigned(GivenOptions[key], max) = None

\* The numeric options of the call whose values do not parse.
UnparsableKeys ==
    {key \in {"frequency_penalty", "presence_penalty", "top_p"} : UnparsableF32(key)}
    \cup {key \in {"n", "seed"} : UnparsableUnsigned(key, U32Max)}
    \cup {key \in {"top_logprobs"} : UnparsableUnsigned(key, U8Max)}

\* The field of the built request an option is written to.
RequestOption(key) ==
    LET built == entry.outcome.value[1]
    IN CASE key = "frequency_penalty" -> built.frequency_penalty
         [] key = "n" -> built.n
         [] key = "presence_penalty" -> built.presence_penalty
         [] key = "seed" -> built.seed
         [] key = "top_logprobs" -> built.top_logprobs
         [] key = "top_p" -> built.top_p

\* C34: create_request fails if and only if at least one tool definition has
\* a schema that is not JSON, and the error then names the first such tool in
\* list order; a provider option whose value does not parse is left out of
\* the request and never causes an error.
C34_OnlyToolSchemasFail ==
    Created =>
        /\ ~entry.outcome.ok <=> InvalidTools # {}
        /\ ~entry.outcome.ok =>
              \E i \in InvalidTools :
                 /\ \A j \in InvalidTools : i <= j
                 /\ entry.outcome.error[1].message =
                       <<"Failed to parse tool parameters for ", entry.config.tools[i].name,
                         ": ", JsonError>>
        /\ entry.outcome.ok => \A key \in UnparsableKeys : RequestOption(key) = None

C34_Witness ==
    /\ Created
    /\ entry.outcome.ok
    /\ Len(entry.config.tools) = 1
    /\ UnparsableKeys = {"frequency_penalty", "n", "presence_penalty", "seed",
                         "top_logprobs", "top_p"}
    /\ entry.outcome.value[1].user = Some(<<"u">>)

\* The tool calls emitted for the first n frames, in emission order.
RECURSIVE ObservedToolCalls(_)
ObservedToolCalls(n) ==
    IF n = 0 THEN <<>> ELSE ObservedToolCalls(n - 1) \o EmittedToolCalls(n)

\* The content part is a tool-call marker.
IsMarker(part) == part.text # <<>> /\ part.text[1] = "<tool-call id=\""

\* The tool-call markers of the continuation prompt's last message, in order.
PromptMarkers ==
    LET parts == Last(retry.extended[1]).content
    IN SelectSeq(parts, IsMarker)

\* The marker renders the tool call's id, name and arguments.
MarkerRenders(part, tool_call) ==
    /\ Len(part.text) = 6 + Len(tool_call.arguments_json)
    /\ part.text[2] = tool_call.id
    /\ part.text[4] = tool_call.name
    /\ SubSeq(part.text, 6, Len(part.text) - 1) = tool_call.arguments_json

\* C35: the continuation prompt built from the deltas observed on a stream
\* holds one tool-call marker per emitted snapshot: as many markers as there
\* are tool-call entries in all observed deltas, each rendering its snapshot
\* in emission order, whatever the number of distinct tool-call indexes.
C35_OneMarkerPerSnapshot ==
    retry.extended # None =>
        /\ Len(PromptMarkers) = Len(ObservedToolCalls(Len(frames)))
        /\ \A i \in 1..Len(PromptMarkers) :
              MarkerRenders(PromptMarkers[i], ObservedToolCalls(Len(frames))[i])

C35_Witness ==
    /\ retry.extended # None
    /\ frames = <<FrameToolFirst, FrameToolCont, FrameToolCont>>
    /\ Len(PromptMarkers) = 3
    /\ Cardinality(DOMAIN json_fragments) = 1
    /\ PromptMarkers[3].text =
          <<"<tool-call id=\"", "c1", "\" name=\"", "f", "\" arguments=\"", "p", "q", "q", "\"/>">>

\* The decoder state of a session nothing has been decoded on.
EmptyDecoderState ==
    /\ finished = FALSE
    /\ finish_reason = None
    /\ DOMAIN json_fragments = {}

\* What the constructor that built the session has set up.
ConstructedAsGiven ==
    /\ EmptyDecoderState
    /\ entry.op = "new" => (stream # None /\ failure = None)
    /\ entry.op = "failed" => (stream = None /\ failure = entry.error)

\* The failure is the one given at construction, and a failure and a
\* transport never go together.
FailureAsConstructed ==
    /\ failure = entry.error
    /\ ~(failure # None /\ stream # None)

\* C36: a session built by new has a transport, no failure, finished false,
\* no finish reason and an empty fragment table; a session built by failed
\* has no transport, exactly the given error and the same empty decoder
\* state; in every reachable state the failure is the one given at
\* construction, no step sets or clears it, and a session never has both a
\* failure and a transport.
C36_ConstructionInvariant ==
    ConstructedAsGiven /\ []FailureAsConstructed /\ [][failure' = failure]_vars

C36_Witness ==
    /\ entry.op = "new"
    /\ Len(frames) = 3
    /\ ~results[2].ok
    /\ finished
    /\ finish_reason # None
    /\ DOMAIN json_fragments # {}
    /\ failure = None
    /\ stream # None

====
